---- MODULE Spec2Model ----
(***************************************************************************)
(* Model of the realtime session client (MultimodalLiveClient): the socket *)
(* lifecycle (connect / retry / open / error / close / disconnect), the    *)
(* outbound send operations, and the decode-and-dispatch of inbound        *)
(* frames.                                                                 *)
(***************************************************************************)
EXTENDS Integers, Sequences, FiniteSets, TLC

(***************************************************************************)
(* Bounds of the model.                                                    *)
(***************************************************************************)
\* sockets of the client that are alive (or still referred to) at once
MaxSockets == 2
\* connect() calls in progress at once
MaxCalls == 1
\* frames handed to one socket's transport
MaxSent == 2
\* frames handed to one socket's transport when calls come in a row
MaxBurst == 3
\* inbound frames whose asynchronous decode is in progress at once
MaxInFlight == 1
\* parts of one modelTurn
MaxParts == 2

(***************************************************************************)
(* Program constants.                                                      *)
(***************************************************************************)
reconnectAttempts == 3

Sockets == 1..MaxSockets
Calls == 1..MaxCalls
NoSocket == 0

\* LiveConfig values a caller may pass; NullConfig is a missing config
NullConfig == "null"
Configs == {"cfgA", "cfgB"}

(***************************************************************************)
(* JSON values.  Every value is a record with a tag t.                     *)
(***************************************************************************)
Absent == [t |-> "absent"]
Null == [t |-> "null"]
Str == [t |-> "string"]
Bool(b) == [t |-> "boolean", v |-> b]
Invalid == [t |-> "invalid"]
None == [t |-> "none"]

\* JavaScript typeof: null is an object, a missing property is undefined
TypeOf(v) ==
  CASE v.t \in {"object", "null"} -> "object"
    [] v.t = "absent" -> "undefined"
    [] OTHER -> v.t

SeqsUpTo(S, n) == UNION {[1..k -> S] : k \in 0..n}

(***************************************************************************)
(* Parts of a modelTurn.                                                   *)
(***************************************************************************)
TextPart(s) == [inline |-> FALSE, mimeType |-> "", data |-> "", text |-> s]
InlinePart(m, d) == [inline |-> TRUE, mimeType |-> m, data |-> d, text |-> ""]

PartPool ==
  { InlinePart("audio/pcm;rate=24000", "AQI="),
    InlinePart("audio/pcm", ""),
    InlinePart("audio/pcm", "/w=="),
    InlinePart("image/jpeg", "/w=="),
    TextPart("hello") }

\* String.prototype.startsWith("audio/pcm") over the MIME types of the pool
StartsWithAudioPcm(m) == m \in {"audio/pcm", "audio/pcm;rate=24000"}

\* atob + charCodeAt over the base64 strings of the pool
base64ToArrayBuffer(b64) ==
  CASE b64 = "AQI=" -> <<1, 2>>
    [] b64 = "/w==" -> <<255>>
    [] OTHER -> <<>>

(***************************************************************************)
(* Inbound frames.                                                         *)
(***************************************************************************)
ModelTurnValue(parts) == [t |-> "object", parts |-> parts]

ServerContentObj(i, tc, mt) ==
  [t |-> "object", interrupted |-> i, turnComplete |-> tc, modelTurn |-> mt]

Message(tc, tcc, su, sc) ==
  [t |-> "object", toolCall |-> tc, toolCallCancellation |-> tcc,
   setupComplete |-> su, serverContent |-> sc]

ToolCallValues == {[t |-> "object", id |-> "callA"], [t |-> "object", id |-> "callB"]}
CancellationValues == {[t |-> "object", ids |-> TRUE], [t |-> "object", ids |-> FALSE]}
EmptyObj == [t |-> "object"]

ServerContentValues ==
  { ServerContentObj(i, tc, mt) :
      i \in {Absent, Bool(TRUE)},
      tc \in {Absent, Bool(TRUE), Bool(FALSE), Str},
      mt \in {Absent, Null} \cup {ModelTurnValue(p) : p \in SeqsUpTo(PartPool, MaxParts)} }

\* bodies with any combination of the four recognised keys
KeyBodies ==
  { Message(tc, tcc, su, sc) :
      tc \in {Absent, Str} \cup ToolCallValues,
      tcc \in {Absent, Str} \cup CancellationValues,
      su \in {Absent, Str, EmptyObj},
      sc \in {Absent, Str, ServerContentObj(Absent, Bool(TRUE), Absent)} }

\* bodies with only a serverContent key, in every shape
ContentBodies ==
  { Message(Absent, Absent, Absent, sc) : sc \in {Null} \cup ServerContentValues }

AllBodies == {Invalid, Null, Str} \cup KeyBodies \cup ContentBodies

\* the bodies the lifecycle specification draws from
CoreBodies == {Invalid, Message(Absent, Absent, EmptyObj, Absent)}

(***************************************************************************)
(* Events handed to listeners.                                             *)
(***************************************************************************)
Event(name, data) == [ev |-> name, data |-> data]
Log(type) == Event("log", [t |-> "log", type |-> type])

ProtocolEvents ==
  {"toolcall", "toolcallcancellation", "setupcomplete", "interrupted",
   "turncomplete", "audio", "content"}

(***************************************************************************)
(* Type guards of the message model.                                       *)
(***************************************************************************)
prop(value, propName) ==
  /\ value.t # "null"
  /\ TypeOf(value) = "object"
  /\ value[propName].t # "absent"
  /\ TypeOf(value[propName]) = "object"

isToolCallCancellation(value) ==
  /\ value.t # "null"
  /\ TypeOf(value) = "object"
  /\ value.ids

isSetupCompleteMessage(value) == prop(value, "setupComplete")
isServerContenteMessage(value) == prop(value, "serverContent")
isToolCallMessage(value) == prop(value, "toolCall")
isToolCallCancellationMessage(value) ==
  /\ prop(value, "toolCallCancellation")
  /\ isToolCallCancellation(value.toolCallCancellation)

isModelTurn(value) ==
  value.t # "null" /\ TypeOf(value) = "object" /\ value.modelTurn.t # "absent"
isTurnComplete(value) ==
  /\ value.t # "null"
  /\ TypeOf(value) = "object"
  /\ value.turnComplete.t # "absent"
  /\ TypeOf(value.turnComplete) = "boolean"
isInterrupted(value) ==
  value.t # "null" /\ TypeOf(value) = "object" /\ value.interrupted.t # "absent"

\* JSON.parse inside blobToJSON: the promise rejects on text that is not JSON
blobToJSON(body) ==
  IF body.t = "invalid"
    THEN [ok |-> FALSE, value |-> Invalid]
    ELSE [ok |-> TRUE, value |-> body]

(***************************************************************************)
(* Decode and dispatch of one inbound frame (receive and its handlers).    *)
(* Each returns the events it emits, in order; ok is FALSE when the        *)
(* returned promise rejects.                                               *)
(***************************************************************************)
Range(s) == {s[i] : i \in DOMAIN s}

IsAudioPart(p) == p.inline /\ StartsWithAudioPcm(p.mimeType)

\* difference that removes nothing
differenceKeepsAll(array, values) == array

\* lodash difference: the elements of array that are not among values
difference(array, values) == SelectSeq(array, LAMBDA x : x \notin Range(values))

separateContentParts(parts) ==
  LET audioParts == SelectSeq(parts, IsAudioPart)
  IN [audioParts |-> audioParts, otherParts |-> difference(parts, audioParts)]

\* processAudioParts that stops after the first audio part
processAudioPartsFirstOnly(audioParts) ==
  IF audioParts = <<>> \/ Head(audioParts).data = ""
    THEN <<>>
    ELSE <<Event("audio", [t |-> "bytes",
                           bytes |-> base64ToArrayBuffer(Head(audioParts).data)]),
           Log("server.audio")>>

RECURSIVE processAudioParts(_)
processAudioParts(audioParts) ==
  IF audioParts = <<>>
    THEN <<>>
    ELSE LET part == Head(audioParts)
             data == [t |-> "bytes", bytes |-> base64ToArrayBuffer(part.data)]
             out == IF part.data # ""
                      THEN <<Event("audio", data), Log("server.audio")>>
                      ELSE <<>>
         IN out \o processAudioParts(Tail(audioParts))

processModelTurn(modelTurn) ==
  LET sep == separateContentParts(modelTurn.parts)
      content == [t |-> "content", parts |-> sep.otherParts]
  IN processAudioParts(sep.audioParts)
       \o (IF Len(sep.otherParts) > 0
             THEN <<Event("content", content), Log("server.content")>>
             ELSE <<>>)

handleToolCall(response) ==
  <<Log("server.toolCall"), Event("toolcall", response.toolCall)>>

\* the cancellation handler emitting the tool-call event instead of its own
handleToolCallCancellationAsToolCall(response) ==
  <<Log("receive.toolCallCancellation"),
    Event("toolcall", response.toolCallCancellation)>>

handleToolCallCancellation(response) ==
  <<Log("receive.toolCallCancellation"),
    Event("toolcallcancellation", response.toolCallCancellation)>>

handleSetupComplete == <<Log("server.send"), Event("setupcomplete", None)>>

\* handleServerContent with the model turn dispatched before turnComplete
handleServerContentModelTurnFirst(response) ==
  LET serverContent == response.serverContent
      turn == IF isTurnComplete(serverContent)
                THEN <<Log("server.send"), Event("turncomplete", None)>>
                ELSE <<>>
  IN IF isInterrupted(serverContent)
       THEN [events |-> <<Log("receive.serverContent"), Event("interrupted", None)>>,
             ok |-> TRUE]
       ELSE IF ~isModelTurn(serverContent)
         THEN [events |-> turn, ok |-> TRUE]
         ELSE IF serverContent.modelTurn.t # "object"
           THEN [events |-> <<>>, ok |-> FALSE]
           ELSE [events |-> processModelTurn(serverContent.modelTurn) \o turn,
                 ok |-> TRUE]

\* handleServerContent without the return that follows the interrupted event
handleServerContentNoReturn(response) ==
  LET serverContent == response.serverContent
      stop == IF isInterrupted(serverContent)
                THEN <<Log("receive.serverContent"), Event("interrupted", None)>>
                ELSE <<>>
      turn == IF isTurnComplete(serverContent)
                THEN <<Log("server.send"), Event("turncomplete", None)>>
                ELSE <<>>
  IN IF ~isModelTurn(serverContent)
       THEN [events |-> stop \o turn, ok |-> TRUE]
       ELSE IF serverContent.modelTurn.t # "object"
         THEN [events |-> stop \o turn, ok |-> FALSE]
         ELSE [events |-> stop \o turn \o processModelTurn(serverContent.modelTurn),
               ok |-> TRUE]

handleServerContent(response) ==
  LET serverContent == response.serverContent
      turn == IF isTurnComplete(serverContent)
                THEN <<Log("server.send"), Event("turncomplete", None)>>
                ELSE <<>>
  IN IF isInterrupted(serverContent)
       THEN [events |-> <<Log("receive.serverContent"), Event("interrupted", None)>>,
             ok |-> TRUE]
       ELSE IF ~isModelTurn(serverContent)
         THEN [events |-> turn, ok |-> TRUE]
         ELSE IF serverContent.modelTurn.t # "object"
           \* modelTurn.parts.filter on a modelTurn without parts: TypeError
           THEN [events |-> turn, ok |-> FALSE]
           ELSE [events |-> turn \o processModelTurn(serverContent.modelTurn),
                 ok |-> TRUE]

\* matched: the handler the frame was dispatched to, "unmatched" after the
\* console warning, "none" when decoding rejected
receive(body) ==
  LET decoded == blobToJSON(body)
      response == decoded.value
  IN IF ~decoded.ok
       THEN [events |-> <<>>, ok |-> FALSE, matched |-> "none"]
       ELSE IF isToolCallMessage(response)
         THEN [events |-> handleToolCall(response), ok |-> TRUE,
               matched |-> "toolCall"]
         ELSE IF isToolCallCancellationMessage(response)
           THEN [events |-> handleToolCallCancellation(response), ok |-> TRUE,
                 matched |-> "toolCallCancellation"]
           ELSE IF isSetupCompleteMessage(response)
             THEN [events |-> handleSetupComplete, ok |-> TRUE,
                   matched |-> "setupComplete"]
             ELSE IF isServerContenteMessage(response)
               THEN [events |-> handleServerContent(response).events,
                     ok |-> handleServerContent(response).ok,
                     matched |-> "serverContent"]
               ELSE [events |-> <<>>, ok |-> TRUE, matched |-> "unmatched"]

(***************************************************************************)
(* State.                                                                  *)
(***************************************************************************)
VARIABLES
  ws,        \* MultimodalLiveClient.ws: the stored socket, NoSocket for null
  config,    \* MultimodalLiveClient.config
  sock,      \* readiness of every socket the client created
  lsn,       \* the "error" / "close" listeners attached to each socket
  sent,      \* frames handed to each socket's send(), oldest first
  calls,     \* the connect() calls in progress: position, attempt, awaited socket
  decoding,  \* inbound frames whose blobToJSON is still in progress
  last,      \* the operation that ran last and how it returned
  emitted,   \* the events the last operation emitted, in order
  \* the useLiveAPI hook and its AudioStreamer
  audioStreamerRef,     \* audioStreamerRef.current: a streamer, NoStreamer for null
  audioInitializedRef,  \* audioInitializedRef.current
  inits,                \* the initializeAudio() runs in progress
  pcmSource,            \* AudioStreamer.pcmSource of every streamer created
  src,                  \* the buffer sources created: state, owner, samples
  lastP,                \* the hook operation that ran last
  \* the AudioRecorder
  stream,            \* AudioRecorder.stream: a microphone stream, NoStream for undefined
  audioContext,      \* AudioRecorder.audioContext is set
  source,            \* AudioRecorder.source: a stream source node, NoNode for undefined
  recordingWorklet,  \* AudioRecorder.recordingWorklet is set
  vuWorklet,         \* AudioRecorder.vuWorklet is set
  starting,          \* AudioRecorder.starting: the start() run whose promise it holds
  recording,         \* AudioRecorder.recording
  tracks,            \* the microphone streams acquired: their tracks' state
  nodes,             \* the stream source nodes created: stream, wiring
  starts,            \* the start() runs in progress
  lastR,             \* the recorder operation that ran last
  \* the log store
  logs,     \* useLoggerStore.logs, oldest first
  maxLogs,  \* useLoggerStore.maxLogs
  lastL,    \* the store operation that ran last
  \* the AudioProcessingWorklet
  bufferWriteIndex,  \* AudioProcessingWorklet.bufferWriteIndex
  isReceivingAudio,  \* AudioProcessingWorklet.isReceivingAudio
  lastW,             \* the process() callback that ran last and what it posted
  bufferSamples,     \* AudioProcessingWorklet.buffer below the write index
  fed,               \* the samples process() was handed since the input began
  posted,            \* the chunks posted since the input began, end to end
  \* the close listener's reading of the close reason
  closeReason,   \* CloseEvent.reason of the close event handled last
  parsedReason,  \* what parseCloseReason returned for it
  \* the worklet's conversion of a sample
  floatSample,   \* float32Array[i], in units of 1/SampleUnit
  int16Sample,   \* the value stored in buffer for it
  \* the useLiveAPI hook's view of the connection
  connected,     \* state.connected
  hookCalls      \* the client.connect() calls the hook's connect() awaits

clientVars == <<ws, config, sock, lsn, sent, calls, decoding, last, emitted>>
playbackVars == <<audioStreamerRef, audioInitializedRef, inits, pcmSource, src, lastP>>
recorderVars ==
  <<stream, audioContext, source, recordingWorklet, vuWorklet, starting, recording,
    tracks, nodes, starts, lastR>>
loggerVars == <<logs, maxLogs, lastL>>
workletVars == <<bufferWriteIndex, isReceivingAudio, lastW, bufferSamples, fed, posted>>
reasonVars == <<closeReason, parsedReason>>
sampleVars == <<floatSample, int16Sample>>
hookVars == <<connected, hookCalls>>
pureVars == <<reasonVars, sampleVars>>
nonClientVars == <<playbackVars, recorderVars, loggerVars, workletVars, pureVars>>
nonPlaybackVars == <<clientVars, hookVars, recorderVars, loggerVars, workletVars, pureVars>>
nonRecorderVars == <<clientVars, hookVars, playbackVars, loggerVars, workletVars, pureVars>>
nonLoggerVars == <<clientVars, hookVars, playbackVars, recorderVars, workletVars, pureVars>>
nonWorkletVars == <<clientVars, hookVars, playbackVars, recorderVars, loggerVars, pureVars>>
nonReasonVars ==
  <<clientVars, hookVars, playbackVars, recorderVars, loggerVars, workletVars, sampleVars>>
nonSampleVars ==
  <<clientVars, hookVars, playbackVars, recorderVars, loggerVars, workletVars, reasonVars>>
vars == <<clientVars, hookVars, nonClientVars>>

\* ret: how the operation returned; out: what became of the connect() call
\* it belongs to; arg: the inbound frame of a receive
Op(op, s, ret, out, arg) ==
  [op |-> op, sock |-> s, ret |-> ret, out |-> out, arg |-> arg]

IdleCall == [pc |-> "idle", attempt |-> 0, delays |-> 0, sock |-> NoSocket]

NoOutcome == [result |-> "none", attempt |-> 0, delays |-> 0, err |-> NoSocket]

(***************************************************************************)
(* The useLiveAPI hook and its AudioStreamer.                              *)
(***************************************************************************)
\* AudioStreamer objects the hook creates
MaxStreamers == 2
\* buffer sources alive (or still referred to) at once
MaxSources == 3
\* initializeAudio() runs in progress at once
MaxInits == 2

Streamers == 1..MaxStreamers
NoStreamer == 0
PcmSources == 1..MaxSources
NoSource == 0
InitRuns == 1..MaxInits

\* the bytes of an `audio` event; NoChunk is an initializeAudio() run that
\* has no chunk waiting for it
Chunks == {<<0, 1>>, <<255, 255>>, <<1>>, <<1, 2, 3>>}
NoChunk == <<>>

IdleInit == [pc |-> "idle", chunk |-> NoChunk]
FreeSource == [state |-> "none", owner |-> NoStreamer, buffer |-> <<>>]

\* stop: AudioStreamer.stop() was called; threw: addPCM16 threw; data: the
\* chunk handed to addPCM16, NoChunk when it was not called
PlaybackOp(op, k, stop, threw, data) ==
  [op |-> op, streamer |-> k, stop |-> stop, threw |-> threw, data |-> data]

PlaybackInit ==
  /\ audioStreamerRef = NoStreamer
  /\ audioInitializedRef = FALSE
  /\ inits = [i \in InitRuns |-> IdleInit]
  /\ pcmSource = <<>>
  /\ src = [s \in PcmSources |-> FreeSource]
  /\ lastP = PlaybackOp("init", NoStreamer, FALSE, FALSE, NoChunk)

(***************************************************************************)
(* The AudioRecorder.                                                      *)
(***************************************************************************)
\* microphone streams alive (or still referred to) at once
MaxStreams == 2
\* stream source nodes alive (or still referred to) at once
MaxNodes == 2
\* start() runs in progress at once
MaxStarts == 2

MicStreams == 1..MaxStreams
NoStream == 0
Nodes == 1..MaxNodes
NoNode == 0
Starts == 1..MaxStarts
NoStart == 0

\* cleanup: stop() was called while this run held `starting`; acquired: the
\* stream this run got from getUserMedia
IdleStart == [pc |-> "idle", cleanup |-> FALSE, acquired |-> NoStream]
\* wired: the node is connected to a recording worklet
FreeNode == [state |-> "none", stream |-> NoStream, wired |-> FALSE]

RecorderOp(op, result, acquired, stopRequested) ==
  [op |-> op, result |-> result, acquired |-> acquired, stopRequested |-> stopRequested]

RecorderInit ==
  /\ stream = NoStream
  /\ audioContext = FALSE
  /\ source = NoNode
  /\ recordingWorklet = FALSE
  /\ vuWorklet = FALSE
  /\ starting = NoStart
  /\ recording = FALSE
  /\ tracks = [m \in MicStreams |-> "none"]
  /\ nodes = [n \in Nodes |-> FreeNode]
  /\ starts = [r \in Starts |-> IdleStart]
  /\ lastR = RecorderOp("init", "none", NoStream, FALSE)

(***************************************************************************)
(* The log store.                                                          *)
(***************************************************************************)
\* the default capacity of the store
DefaultMaxLogs == 500
\* entries logged before the store is cleared
MaxLogLen == 3
\* repeats of one entry that are counted
MaxCount == 2

\* the capacities setMaxLogs is called with
Capacities == {1, 2}

LogTypes == {"client.send", "server.content"}

\* StreamingLog.message: a string, or a message object. Two objects with the
\* same content are still two objects: ref tells them apart.
StringMessage(text) == [kind |-> "string", ref |-> 0, value |-> text]
ObjectMessage(ref, content) == [kind |-> "object", ref |-> ref, value |-> content]
Messages ==
  {StringMessage("setup"), ObjectMessage(1, "turns"), ObjectMessage(2, "turns")}

\* a StreamingLog as the client emits it (count 0: the field is absent)
StreamingLog(type, message) == [type |-> type, message |-> message, count |-> 0]
StreamingLogs == {StreamingLog(ty, m) : ty \in LogTypes, m \in Messages}

LoggerOp(op, entry, merged) == [op |-> op, entry |-> entry, merged |-> merged]
NoEntry == StreamingLog("none", StringMessage(""))

\* useLiveAPI: state.connected starts false
HookInit ==
  /\ connected = FALSE
  /\ hookCalls = {}

LoggerInit ==
  /\ logs = <<>>
  /\ maxLogs = DefaultMaxLogs
  /\ lastL = LoggerOp("init", NoEntry, FALSE)

(***************************************************************************)
(* The AudioProcessingWorklet.                                             *)
(***************************************************************************)
BUFFER_SIZE == 2048

\* the samples of one input: more than two full buffers
MaxFed == 4225

\* inputs: no channel at all (0), or the length of the first channel
WorkletOp(op, before, length, chunks) ==
  [op |-> op, before |-> before, length |-> length, chunks |-> chunks]

WorkletInit ==
  /\ bufferWriteIndex = 0
  /\ isReceivingAudio = FALSE
  /\ lastW = WorkletOp("init", 0, 0, <<>>)
  /\ bufferSamples = <<>>
  /\ fed = 0
  /\ posted = <<>>

(***************************************************************************)
(* Close reasons and samples: the inputs of parseCloseReason and of the    *)
(* worklet's conversion.                                                   *)
(***************************************************************************)
\* characters before and after the middle of a close reason
MaxAffix == 2

\* a string is the sequence of its characters
Marker == <<"E", "R", "R", "O", "R", "]">>
ReasonMiddles ==
  {<<>>, Marker, <<"e", "r", "r", "o", "r">>, <<"E", "R", "R", "O", "R">>}
CloseReasons ==
  {pre \o mid \o post : pre \in SeqsUpTo({"[", "x"}, MaxAffix),
                        mid \in ReasonMiddles,
                        post \in SeqsUpTo({" ", "m"}, MaxAffix)}

ReasonInit ==
  /\ closeReason = <<>>
  /\ parsedReason = <<>>

\* the samples are the multiples of 1/SampleUnit in [-1, 1]
SampleBits == 6
SampleUnit == 2 ^ SampleBits
FloatSamples == (-SampleUnit)..SampleUnit

INT16_MAX == 32767

SampleInit ==
  /\ floatSample = 0
  /\ int16Sample = 0

Init ==
  /\ ws = NoSocket
  /\ config = NullConfig
  /\ sock = [s \in Sockets |-> "new"]
  /\ lsn = [s \in Sockets |-> {}]
  /\ sent = [s \in Sockets |-> <<>>]
  /\ calls = [c \in Calls |-> IdleCall]
  /\ decoding = {}
  /\ last = Op("init", NoSocket, "none", NoOutcome, None)
  /\ emitted = <<>>
  /\ HookInit
  /\ PlaybackInit
  /\ RecorderInit
  /\ LoggerInit
  /\ WorkletInit
  /\ ReasonInit
  /\ SampleInit

(***************************************************************************)
(* Helpers shared by the handlers.                                         *)
(***************************************************************************)
FreeSockets == {s \in Sockets : sock[s] = "new"}
NewSocket == CHOOSE s \in FreeSockets : \A r \in FreeSockets : s <= r

\* the connect() call whose establishConnection promise for socket s is pending
Awaiting(callsNow, s) ==
  {c \in Calls : callsNow[c].pc = "handshake" /\ callsNow[c].sock = s}

\* a closed socket raises no further event; once nothing refers to it any
\* more it is garbage, and its slot is free for a later `new WebSocket`
Garbage(sockNow, wsNow, callsNow, decodingNow, s) ==
  /\ sockNow[s] \in {"failed", "closed"}
  /\ s # wsNow
  /\ Awaiting(callsNow, s) = {}
  /\ \A d \in decodingNow : d.sock # s

Sweep(sockNow, wsNow, callsNow, decodingNow) ==
  [s \in Sockets |->
     IF Garbage(sockNow, wsNow, callsNow, decodingNow, s) THEN "new" ELSE sockNow[s]]

\* establishConnection: a fresh socket with its message, error and open listeners
EstablishConnection(call) == [call EXCEPT !.pc = "handshake", !.sock = NewSocket]

\* the catch block with the comparison off by one: a fourth attempt is made
CatchAttemptOffByOne(call) ==
  IF call.attempt = reconnectAttempts + 1
    THEN [call EXCEPT !.pc = "rejected"]
    ELSE [call EXCEPT !.pc = "delay", !.delays = call.delays + 1, !.sock = NoSocket]

\* the catch block of connect(): rethrow on the last attempt, else wait
CatchAttempt(call) ==
  IF call.attempt = reconnectAttempts
    THEN [call EXCEPT !.pc = "rejected"]
    ELSE [call EXCEPT !.pc = "delay", !.delays = call.delays + 1, !.sock = NoSocket]

\* reject(...) of the promise of socket s: only a pending promise settles.
\* A connect() call that has settled is gone: its slot is idle again.
Reject(s) ==
  IF Awaiting(calls, s) = {}
    THEN [calls |-> calls, out |-> NoOutcome]
    ELSE LET c == CHOOSE c \in Awaiting(calls, s) : TRUE
             after == CatchAttempt(calls[c])
         IN [calls |-> [calls EXCEPT ![c] = IF after.pc = "rejected"
                                              THEN IdleCall ELSE after],
             out |-> [result |-> after.pc, attempt |-> after.attempt,
                      delays |-> after.delays, err |-> s]]

\* resolve(true) of the promise of socket s
Resolve(s) ==
  IF Awaiting(calls, s) = {}
    THEN [calls |-> calls, out |-> NoOutcome]
    ELSE LET c == CHOOSE c \in Awaiting(calls, s) : TRUE
         IN [calls |-> [calls EXCEPT ![c] = IdleCall],
             out |-> [result |-> "resolved", attempt |-> calls[c].attempt,
                      delays |-> calls[c].delays, err |-> NoSocket]]

\* disconnect that closes the socket but keeps the stored reference
disconnectKeepsReference(arg) ==
  IF (arg = NoSocket \/ ws = arg) /\ ws # NoSocket
    THEN [closes |-> ws, ws |-> ws, ret |-> TRUE,
          events |-> <<Log("client.close")>>]
    ELSE [closes |-> NoSocket, ws |-> ws, ret |-> FALSE, events |-> <<>>]

\* disconnect that tears the stored socket down whichever socket it is given
disconnectAnySocket(arg) ==
  IF ws # NoSocket
    THEN [closes |-> ws, ws |-> NoSocket, ret |-> TRUE,
          events |-> <<Log("client.close")>>]
    ELSE [closes |-> NoSocket, ws |-> ws, ret |-> FALSE, events |-> <<>>]

\* disconnect that ignores the calls made by the socket's own listeners
disconnectUserOnly(arg) ==
  IF arg = NoSocket /\ ws # NoSocket
    THEN [closes |-> ws, ws |-> NoSocket, ret |-> TRUE,
          events |-> <<Log("client.close")>>]
    ELSE [closes |-> NoSocket, ws |-> ws, ret |-> FALSE, events |-> <<>>]

\* disconnect(arg): the socket it closes (NoSocket when none), what it returns
disconnect(arg) ==
  IF (arg = NoSocket \/ ws = arg) /\ ws # NoSocket
    THEN [closes |-> ws, ws |-> NoSocket, ret |-> TRUE,
          events |-> <<Log("client.close")>>]
    ELSE [closes |-> NoSocket, ws |-> ws, ret |-> FALSE, events |-> <<>>]

\* getConfig that forgets the config
getConfigCleared(cfg) == NullConfig

\* getConfig(): a copy of the stored config, null when there is none
getConfig(cfg) == IF cfg # NullConfig THEN cfg ELSE NullConfig

\* WebSocket.close(): an open socket starts closing, a closed one stays closed
CloseSocket(state) == IF state = "open" THEN "closing" ELSE state

Frame(kind, data) == [kind |-> kind, data |-> data]
SendKinds == {"clientContent", "realtimeInput", "toolResponse"}

\* the `parts` argument of send(): one part, or an array of parts
OnePart(p) == [array |-> FALSE, part |-> p]
PartArray(ps) == [array |-> TRUE, parts |-> ps]
\* the arguments of send(parts, turnComplete); Absent: the argument is left out
SendArgs(parts, turnComplete) == [parts |-> parts, turnComplete |-> turnComplete]

MediaChunk == [mimeType |-> "audio/pcm", data |-> "AQI="]
ToolResponse == [functionResponses |-> <<[id |-> "callA"]>>]

\* the arguments the lifecycle specification calls the three methods with
CoreArgs(kind) ==
  CASE kind = "clientContent" -> SendArgs(OnePart(TextPart("hello")), Absent)
    [] kind = "realtimeInput" -> <<MediaChunk>>
    [] kind = "toolResponse" -> ToolResponse

\* the ways of calling them: one part or an array of none, one or two parts,
\* with and without turnComplete
SentArrays ==
  { <<>>, <<TextPart("hello")>>,
    <<TextPart("hello"), InlinePart("image/jpeg", "/w==")>>,
    <<InlinePart("image/jpeg", "/w==")>>,
    <<InlinePart("image/jpeg", "/w=="), TextPart("hello")>> }
AllArgs(kind) ==
  CASE kind = "clientContent" ->
         { SendArgs(parts, tc) :
             parts \in {OnePart(TextPart("hello"))}
                        \cup {PartArray(ps) : ps \in SentArrays},
             tc \in {Absent, Bool(TRUE), Bool(FALSE)} }
    [] kind = "realtimeInput" -> {<<MediaChunk>>}
    [] kind = "toolResponse" -> {ToolResponse}

\* send() whose turnComplete has no default
clientContentNoDefault(args) ==
  [turns |-> <<[role |-> "user",
                parts |-> IF args.parts.array THEN args.parts.parts
                                              ELSE <<args.parts.part>>]>>,
   turnComplete |-> args.turnComplete = Bool(TRUE)]

\* send(): the clientContent the parts are wrapped in
clientContent(args) ==
  [turns |-> <<[role |-> "user",
                parts |-> IF args.parts.array THEN args.parts.parts
                                              ELSE <<args.parts.part>>]>>,
   turnComplete |-> IF args.turnComplete = Absent THEN TRUE ELSE args.turnComplete.v]

\* the value under the frame's key, as each method builds it
Request(kind, args) ==
  CASE kind = "clientContent" -> clientContent(args)
    [] kind = "realtimeInput" -> [mediaChunks |-> args]
    [] kind = "toolResponse" -> args

\* the log type of send() used for all three methods
LogTypeAlwaysSend(kind) == "client.send"

LogType(kind) ==
  CASE kind = "clientContent" -> "client.send"
    [] kind = "realtimeInput" -> "client.realtimeInput"
    [] kind = "toolResponse" -> "client.toolResponse"

\* _sendDirect without its guard: the frame is dropped silently
sendDirectUnguarded(socket, wire, frame) ==
  IF socket = NoSocket
    THEN [ok |-> TRUE, sent |-> wire]
    ELSE [ok |-> TRUE, sent |-> [wire EXCEPT ![socket] = Append(@, frame)]]

\* _sendDirect that puts the frame in front of those already handed over
sendDirectPrepends(socket, wire, frame) ==
  IF socket = NoSocket
    THEN [ok |-> FALSE, sent |-> wire]
    ELSE [ok |-> TRUE, sent |-> [wire EXCEPT ![socket] = <<frame>> \o @]]

\* _sendDirect: throws without a stored socket, else hands the frame to it
sendDirect(socket, wire, frame) ==
  IF socket = NoSocket
    THEN [ok |-> FALSE, sent |-> wire]
    ELSE [ok |-> TRUE, sent |-> [wire EXCEPT ![socket] = Append(@, frame)]]

\* send / sendRealtimeInput / sendToolResponse: _sendDirect, then the log
SendCall(kind, payload) ==
  LET r == sendDirect(ws, sent, Frame(kind, Request(kind, payload)))
  IN [ok |-> r.ok, sent |-> r.sent,
      events |-> IF r.ok THEN <<Log(LogType(kind))>> ELSE <<>>]

\* what a listener of the `open` event does when it is called
OpenListeners == {"none", "send"}

\* the state of the sockets after a step: garbage is dropped with its record
Settle(sockNow, lsnNow, sentNow, wsNow, callsNow, decodingNow) ==
  LET swept == Sweep(sockNow, wsNow, callsNow, decodingNow)
  IN /\ sock' = swept
     /\ lsn' = [s \in Sockets |-> IF swept[s] = "new" THEN {} ELSE lsnNow[s]]
     /\ sent' = [s \in Sockets |-> IF swept[s] = "new" THEN <<>> ELSE sentNow[s]]

(***************************************************************************)
(* Operations.                                                             *)
(***************************************************************************)
\* What the hook does within a step of the client: its close listener sets
\* connected to false, and its connect() sets connected to true once the
\* client.connect() it awaits (one of awaited) has resolved; a rejection
\* leaves connected as it is.
HookReacts(awaited) ==
  LET settled == {c \in awaited : calls'[c].pc = "idle"}
      closed == \E i \in DOMAIN emitted' : emitted'[i].ev = "close"
  IN /\ hookCalls' = awaited \ settled
     /\ connected' = IF settled # {} /\ last'.out.result = "resolved"
                       THEN TRUE
                       ELSE IF closed THEN FALSE ELSE connected

\* connect(config): stores the config and starts attempt 1
Connect(c, cfg) ==
  /\ calls[c].pc = "idle"
  /\ \A b \in Calls : b < c => calls[b].pc # "idle"
  /\ FreeSockets # {}
  /\ config' = cfg
  /\ calls' = [calls EXCEPT ![c] = EstablishConnection([calls[c] EXCEPT !.attempt = 1])]
  /\ sock' = [sock EXCEPT ![NewSocket] = "connecting"]
  /\ lsn' = [lsn EXCEPT ![NewSocket] = {"error"}]
  /\ emitted' = <<>>
  /\ last' = Op("connect", NewSocket, "pending", NoOutcome,
                [t |-> "config", config |-> cfg])
  /\ UNCHANGED <<ws, sent, decoding, nonClientVars>>
  /\ HookReacts(hookCalls)

\* the timer between two attempts fires: the loop starts the next attempt
DelayElapsed(c) ==
  /\ calls[c].pc = "delay"
  /\ FreeSockets # {}
  /\ calls' = [calls EXCEPT
                 ![c] = EstablishConnection([calls[c] EXCEPT !.attempt = @ + 1])]
  /\ sock' = [sock EXCEPT ![NewSocket] = "connecting"]
  /\ lsn' = [lsn EXCEPT ![NewSocket] = {"error"}]
  /\ emitted' = <<>>
  /\ last' = Op("delay", NewSocket, "pending", NoOutcome, None)
  /\ UNCHANGED <<ws, config, sent, decoding, nonClientVars>>
  /\ HookReacts(hookCalls)

\* the socket's open event: the listener made by handleOpenConnection
OpenEvent(s, l) ==
  /\ sock[s] = "connecting"
  /\ l = "send" /\ ws # NoSocket => Len(sent[ws]) < MaxSent
  /\ sock' = [sock EXCEPT ![s] = "open"]
  /\ UNCHANGED <<config, decoding, nonClientVars>>
  /\ IF config = NullConfig
       THEN /\ calls' = Reject(s).calls
            /\ emitted' = <<>>
            /\ last' = Op("open", s, "reject", Reject(s).out, None)
            /\ UNCHANGED <<ws, lsn, sent>>
       ELSE LET pre == <<Log("client.open"), Event("open", None)>>
                lis == IF l = "send"
                         THEN SendCall("clientContent", CoreArgs("clientContent"))
                         ELSE [ok |-> TRUE, sent |-> sent, events |-> <<>>]
                setup == sendDirect(s, lis.sent, Frame("setup", config))
            IN IF ~lis.ok
                 \* the listener's send throws out of emit("open")
                 THEN /\ emitted' = pre
                      /\ last' = Op("open", s, "throw", NoOutcome, None)
                      /\ UNCHANGED <<ws, lsn, sent, calls>>
                 ELSE /\ ws' = s
                      /\ sent' = setup.sent
                      /\ emitted' = pre \o lis.events \o <<Log("client.send")>>
                      /\ lsn' = [lsn EXCEPT ![s] = (@ \ {"error"}) \cup {"close"}]
                      /\ calls' = Resolve(s).calls
                      /\ last' = Op("open", s, "resolve", Resolve(s).out, None)
  /\ HookReacts(hookCalls)

\* the socket's error event while the onError listener is attached
ErrorEvent(s) ==
  /\ sock[s] \in {"connecting", "open"}
  /\ "error" \in lsn[s]
  /\ LET d == disconnect(s)
         r == Reject(s)
         after == [sock EXCEPT
                     ![s] = IF sock[s] = "connecting" THEN "failed" ELSE "closed"]
     IN /\ ws' = d.ws
        /\ calls' = r.calls
        /\ Settle(after, lsn, sent, d.ws, r.calls, decoding)
        /\ emitted' = d.events \o <<Log("server.error")>>
        /\ last' = Op("error", s, "reject", r.out, None)
  /\ UNCHANGED <<config, decoding, nonClientVars>>
  /\ HookReacts(hookCalls)

\* the socket's close event: the listener made by handleCloseConnection
CloseEvent(s) ==
  /\ sock[s] \in {"open", "closing"}
  /\ LET d == IF "close" \in lsn[s]
                THEN disconnect(s)
                ELSE [closes |-> NoSocket, ws |-> ws, ret |-> FALSE, events |-> <<>>]
     IN /\ ws' = d.ws
        /\ Settle([sock EXCEPT ![s] = "closed"], lsn, sent, d.ws, calls, decoding)
        /\ emitted' = IF "close" \in lsn[s]
                        THEN d.events \o <<Log("server.close"), Event("close", None)>>
                        ELSE <<>>
  /\ last' = Op("close", s, "none", NoOutcome, None)
  /\ UNCHANGED <<config, calls, decoding, nonClientVars>>
  /\ HookReacts(hookCalls)

\* disconnect() called by the user
Disconnect ==
  LET d == disconnect(NoSocket)
  IN /\ ws' = d.ws
     /\ sock' = IF d.closes = NoSocket
                  THEN sock
                  ELSE [sock EXCEPT ![d.closes] = CloseSocket(@)]
     /\ emitted' = d.events
     /\ last' = Op("disconnect", d.closes, IF d.ret THEN "true" ELSE "false",
                   NoOutcome, None)
     /\ UNCHANGED <<config, lsn, sent, calls, decoding, nonClientVars>>
     /\ HookReacts(hookCalls)

\* the hook's connect(): client.disconnect(), then client.connect(config)
\* up to its first await
HookConnect(c, cfg) ==
  /\ calls[c].pc = "idle"
  /\ \A b \in Calls : b < c => calls[b].pc # "idle"
  /\ FreeSockets # {}
  /\ LET d == disconnect(NoSocket)
         closed == IF d.closes = NoSocket
                     THEN sock
                     ELSE [sock EXCEPT ![d.closes] = CloseSocket(@)]
     IN /\ ws' = d.ws
        /\ sock' = [closed EXCEPT ![NewSocket] = "connecting"]
        /\ emitted' = d.events
  /\ config' = cfg
  /\ calls' = [calls EXCEPT ![c] = EstablishConnection([calls[c] EXCEPT !.attempt = 1])]
  /\ lsn' = [lsn EXCEPT ![NewSocket] = {"error"}]
  /\ last' = Op("hookConnect", NewSocket, "pending", NoOutcome,
                [t |-> "config", config |-> cfg])
  /\ UNCHANGED <<sent, decoding, nonClientVars>>
  /\ HookReacts(hookCalls \cup {c})

\* the hook's disconnect(): client.disconnect(), then connected is set false
HookDisconnect ==
  /\ LET d == disconnect(NoSocket)
     IN /\ ws' = d.ws
        /\ sock' = IF d.closes = NoSocket
                     THEN sock
                     ELSE [sock EXCEPT ![d.closes] = CloseSocket(@)]
        /\ emitted' = d.events
        /\ last' = Op("hookDisconnect", d.closes, IF d.ret THEN "true" ELSE "false",
                      NoOutcome, None)
  /\ connected' = FALSE
  /\ UNCHANGED <<config, lsn, sent, calls, decoding, hookCalls, nonClientVars>>

\* send(parts), sendRealtimeInput(chunks), sendToolResponse(response)
SendMethod(kind, payload) ==
  /\ LET r == SendCall(kind, payload)
     IN /\ sent' = r.sent
        /\ emitted' = r.events
        /\ last' = Op(kind, ws, IF r.ok THEN "none" ELSE "throw", NoOutcome,
                      [t |-> "call", args |-> payload])
  /\ UNCHANGED <<ws, config, sock, lsn, calls, decoding, nonClientVars>>
  /\ HookReacts(hookCalls)

Send(kind, payload) ==
  /\ ws # NoSocket => Len(sent[ws]) < MaxSent
  /\ SendMethod(kind, payload)

\* the same calls, several of them on one socket
SendBurst(kind, payload) ==
  /\ ws # NoSocket => Len(sent[ws]) < MaxBurst
  /\ SendMethod(kind, payload)

\* a message event of an open socket: a Blob starts receive(), other data
\* is only warned about
MessageEvent(s, blob, body) ==
  /\ sock[s] = "open"
  /\ IF blob
       THEN /\ Cardinality(decoding) < MaxInFlight
            /\ decoding' = decoding \cup {[sock |-> s, body |-> body]}
            /\ last' = Op("message", s, "pending", NoOutcome, None)
       ELSE /\ decoding' = decoding
            /\ last' = Op("message", s, "warn", NoOutcome, None)
  /\ emitted' = <<>>
  /\ UNCHANGED <<ws, config, sock, lsn, sent, calls, nonClientVars>>
  /\ HookReacts(hookCalls)

\* blobToJSON settles and receive() runs to its end
ReceiveDone(d) ==
  /\ d \in decoding
  /\ decoding' = decoding \ {d}
  /\ Settle(sock, lsn, sent, ws, calls, decoding \ {d})
  /\ LET r == receive(d.body)
     IN /\ emitted' = r.events
        /\ last' = Op("receive", d.sock, IF r.ok THEN "resolve" ELSE "reject",
                      NoOutcome, [t |-> "frame", body |-> d.body, matched |-> r.matched])
  /\ UNCHANGED <<ws, config, calls, nonClientVars>>
  /\ HookReacts(hookCalls)

Lifecycle ==
  \/ \E c \in Calls, cfg \in Configs \cup {NullConfig} : Connect(c, cfg)
  \/ \E c \in Calls : DelayElapsed(c)
  \/ \E s \in Sockets, l \in OpenListeners : OpenEvent(s, l)
  \/ \E s \in Sockets : ErrorEvent(s)
  \/ \E s \in Sockets : CloseEvent(s)
  \/ Disconnect
  \/ \E k \in SendKinds : Send(k, CoreArgs(k))

Next ==
  \/ Lifecycle
  \/ \E s \in Sockets, b \in BOOLEAN, body \in CoreBodies : MessageEvent(s, b, body)
  \/ \E d \in decoding : ReceiveDone(d)

Spec == Init /\ [][Next]_vars

\* One connection at a time, frames decoded one at a time, every frame shape.
NextDispatch ==
  \/ \E cfg \in Configs : (\A s \in Sockets : sock[s] = "new") /\ Connect(1, cfg)
  \/ \E c \in Calls : DelayElapsed(c)
  \/ \E s \in Sockets : OpenEvent(s, "none")
  \/ \E s \in Sockets : ErrorEvent(s)
  \/ \E s \in Sockets : CloseEvent(s)
  \/ Disconnect
  \/ \E s \in Sockets, body \in AllBodies :
       decoding = {} /\ MessageEvent(s, TRUE, body)
  \/ \E d \in decoding : ReceiveDone(d)

SpecDispatch == Init /\ [][NextDispatch]_vars

\* The connection alone, under the scheduling of the event loop: a socket
\* that is connecting fires open or error, and the timer between two attempts
\* fires.
NextConnect ==
  \/ \E c \in Calls, cfg \in Configs \cup {NullConfig} : Connect(c, cfg)
  \/ \E c \in Calls : DelayElapsed(c)
  \/ \E s \in Sockets, l \in OpenListeners : OpenEvent(s, l)
  \/ \E s \in Sockets : ErrorEvent(s)
  \/ \E s \in Sockets : CloseEvent(s)
  \/ Disconnect

SocketFires(s) ==
  /\ sock[s] = "connecting"
  /\ \/ \E l \in OpenListeners : OpenEvent(s, l)
     \/ ErrorEvent(s)

ConnectFairness ==
  /\ \A s \in Sockets : WF_vars(SocketFires(s))
  /\ \A c \in Calls : WF_vars(DelayElapsed(c))

SpecConnect == Init /\ [][NextConnect]_vars /\ ConnectFairness

\* The client driven through the hook only.
NextHook ==
  \/ \E c \in Calls, cfg \in Configs : HookConnect(c, cfg)
  \/ \E c \in Calls : DelayElapsed(c)
  \/ \E s \in Sockets : OpenEvent(s, "none")
  \/ \E s \in Sockets : ErrorEvent(s)
  \/ \E s \in Sockets : CloseEvent(s)
  \/ HookDisconnect

SpecHook == Init /\ [][NextHook]_vars

TypeOK ==
  /\ ws \in Sockets \cup {NoSocket}
  /\ config \in Configs \cup {NullConfig}
  /\ \A s \in Sockets : sock[s] \in {"new", "connecting", "open", "closing", "closed", "failed"}
  /\ \A c \in Calls : calls[c].pc \in {"idle", "handshake", "delay"}

\* One connection at a time, every frame shape inbound, the three send
\* methods outbound.
NextTraffic ==
  \/ NextDispatch
  \/ \E k \in SendKinds : Send(k, CoreArgs(k))

SpecTraffic == Init /\ [][NextTraffic]_vars

\* One connection at a time and every way of calling the three send methods,
\* several times in a row.
NextSend ==
  \/ \E cfg \in Configs : (\A s \in Sockets : sock[s] = "new") /\ Connect(1, cfg)
  \/ \E c \in Calls : DelayElapsed(c)
  \/ \E s \in Sockets : OpenEvent(s, "none")
  \/ \E s \in Sockets : ErrorEvent(s)
  \/ \E s \in Sockets : CloseEvent(s)
  \/ Disconnect
  \/ \E k \in SendKinds : \E args \in AllArgs(k) : SendBurst(k, args)

SpecSend == Init /\ [][NextSend]_vars

(***************************************************************************)
(* AudioStreamer and the hook's handlers of the client's events.           *)
(***************************************************************************)
\* (data[i] << 8) | data[i + 1] for every byte pair; the value the sample is
\* before the division by 32768
PCM16Buffer(data) ==
  [k \in 1..(Len(data) \div 2) |-> data[2 * k - 1] * 256 + data[2 * k]]

\* AudioBufferSourceNode.stop(): a playing source stops
StopSource(srcs, s) ==
  [srcs EXCEPT ![s].state = IF @ = "live" THEN "stopped" ELSE @]

\* a source that no longer plays and that no streamer refers to is garbage
SweepSources(pcm, srcs) ==
  [s \in PcmSources |->
     IF srcs[s].state \in {"stopped", "ended"} /\ \A k \in DOMAIN pcm : pcm[k] # s
       THEN FreeSource
       ELSE srcs[s]]

FreeSources(srcs) == {s \in PcmSources : srcs[s].state = "none"}
NewSource(srcs) == CHOOSE s \in FreeSources(srcs) : \A r \in FreeSources(srcs) : s <= r

\* addPCM16 that starts the new source without stopping the previous one
addPCM16KeepsPrevious(k, data, pcm, srcs) ==
  IF Len(data) \div 2 = 0
    THEN [ok |-> FALSE, pcmSource |-> pcm, src |-> srcs]
    ELSE LET n == NewSource(srcs)
         IN [ok |-> TRUE,
             pcmSource |-> [pcm EXCEPT ![k] = n],
             src |-> [srcs EXCEPT ![n] = [state |-> "live", owner |-> k,
                                          buffer |-> PCM16Buffer(data)]]]

\* AudioStreamer.addPCM16(data) on streamer k: createBuffer throws for a
\* buffer of no frames; else the previous source is stopped and a new one
\* with the decoded samples is started
addPCM16(k, data, pcm, srcs) ==
  IF Len(data) \div 2 = 0
    THEN [ok |-> FALSE, pcmSource |-> pcm, src |-> srcs]
    ELSE LET stopped == IF pcm[k] # NoSource THEN StopSource(srcs, pcm[k]) ELSE srcs
             n == NewSource(srcs)
         IN [ok |-> TRUE,
             pcmSource |-> [pcm EXCEPT ![k] = n],
             src |-> [stopped EXCEPT ![n] = [state |-> "live", owner |-> k,
                                             buffer |-> PCM16Buffer(data)]]]

\* AudioStreamer.stop() on streamer k
stop(k, pcm, srcs) ==
  IF pcm[k] # NoSource
    THEN [pcmSource |-> [pcm EXCEPT ![k] = NoSource], src |-> StopSource(srcs, pcm[k])]
    ELSE [pcmSource |-> pcm, src |-> srcs]

FreeInits == {i \in InitRuns : inits[i].pc = "idle"}
NewInit == CHOOSE i \in FreeInits : \A r \in FreeInits : i <= r

\* the guard of initializeAudio
InitGuard == audioStreamerRef # NoStreamer \/ audioInitializedRef

\* the `audio` handler: starts initializeAudio() with the chunk waiting for
\* it, or plays the chunk on the streamer the hook refers to
AudioEvent(chunk) ==
  /\ FreeSources(src) # {}
  /\ IF audioStreamerRef = NoStreamer /\ ~audioInitializedRef
       THEN /\ FreeInits # {}
            /\ inits' = [inits EXCEPT ![NewInit] = [pc |-> "pending", chunk |-> chunk]]
            /\ lastP' = PlaybackOp("audio", NoStreamer, FALSE, FALSE, NoChunk)
            /\ UNCHANGED <<pcmSource, src>>
       ELSE IF audioStreamerRef # NoStreamer
         THEN LET r == addPCM16(audioStreamerRef, chunk, pcmSource, src)
              IN /\ pcmSource' = r.pcmSource
                 /\ src' = SweepSources(r.pcmSource, r.src)
                 /\ lastP' = PlaybackOp("audio", audioStreamerRef, FALSE, ~r.ok, chunk)
                 /\ UNCHANGED inits
         ELSE /\ lastP' = PlaybackOp("audio", NoStreamer, FALSE, FALSE, NoChunk)
              /\ UNCHANGED <<inits, pcmSource, src>>
  /\ UNCHANGED <<audioStreamerRef, audioInitializedRef, nonPlaybackVars>>

\* initializeAudio() called by the page
InitializeAudioCall ==
  /\ IF InitGuard
       THEN /\ lastP' = PlaybackOp("initializeAudio", audioStreamerRef, FALSE, FALSE, NoChunk)
            /\ UNCHANGED inits
       ELSE /\ FreeInits # {}
            /\ inits' = [inits EXCEPT ![NewInit] = [pc |-> "pending", chunk |-> NoChunk]]
            /\ lastP' = PlaybackOp("initializeAudio", NoStreamer, FALSE, FALSE, NoChunk)
  /\ UNCHANGED <<audioStreamerRef, audioInitializedRef, pcmSource, src, nonPlaybackVars>>

\* an initializeAudio() run ends: with ok it has made a streamer and stores
\* it in both refs, without it has logged the error; then the callback the
\* `audio` handler attached plays its chunk on the streamer referred to
InitDone(i, ok) ==
  /\ inits[i].pc = "pending"
  /\ ok => Len(pcmSource) < MaxStreamers
  /\ FreeSources(src) # {}
  /\ LET made == IF ok THEN Append(pcmSource, NoSource) ELSE pcmSource
         ref == IF ok THEN Len(made) ELSE audioStreamerRef
         r == IF inits[i].chunk # NoChunk /\ ref # NoStreamer
                THEN addPCM16(ref, inits[i].chunk, made, src)
                ELSE [ok |-> TRUE, pcmSource |-> made, src |-> src]
     IN /\ audioStreamerRef' = ref
        /\ audioInitializedRef' = (ok \/ audioInitializedRef)
        /\ pcmSource' = r.pcmSource
        /\ src' = SweepSources(r.pcmSource, r.src)
        /\ lastP' = PlaybackOp("initDone", ref, FALSE, ~r.ok,
                                IF ref # NoStreamer THEN inits[i].chunk ELSE NoChunk)
  /\ inits' = [inits EXCEPT ![i] = IdleInit]
  /\ UNCHANGED nonPlaybackVars

\* the `interrupted` handler: audioStreamerRef.current?.stop()
InterruptedEvent ==
  /\ IF audioStreamerRef # NoStreamer
       THEN LET r == stop(audioStreamerRef, pcmSource, src)
            IN /\ pcmSource' = r.pcmSource
               /\ src' = SweepSources(r.pcmSource, r.src)
               /\ lastP' = PlaybackOp("interrupted", audioStreamerRef, TRUE, FALSE, NoChunk)
       ELSE /\ lastP' = PlaybackOp("interrupted", NoStreamer, FALSE, FALSE, NoChunk)
            /\ UNCHANGED <<pcmSource, src>>
  /\ UNCHANGED <<audioStreamerRef, audioInitializedRef, inits, nonPlaybackVars>>

\* the client events the hook has no playback handler for (the `close`
\* handler only updates `connected`)
OtherEvents ==
  {"open", "close", "log", "content", "setupcomplete", "turncomplete",
   "toolcall", "toolcallcancellation"}

OtherEvent(name) ==
  /\ lastP' = PlaybackOp(name, NoStreamer, FALSE, FALSE, NoChunk)
  /\ UNCHANGED <<audioStreamerRef, audioInitializedRef, inits, pcmSource, src, nonPlaybackVars>>

\* a source plays its buffer to the end
SourceEnded(s) ==
  /\ src[s].state = "live"
  /\ src' = SweepSources(pcmSource, [src EXCEPT ![s].state = "ended"])
  /\ lastP' = PlaybackOp("ended", src[s].owner, FALSE, FALSE, NoChunk)
  /\ UNCHANGED <<audioStreamerRef, audioInitializedRef, inits, pcmSource, nonPlaybackVars>>

NextPlayback ==
  \/ \E chunk \in Chunks : AudioEvent(chunk)
  \/ InitializeAudioCall
  \/ \E i \in InitRuns, ok \in BOOLEAN : InitDone(i, ok)
  \/ InterruptedEvent
  \/ \E name \in OtherEvents : OtherEvent(name)
  \/ \E s \in PcmSources : SourceEnded(s)

SpecPlayback == Init /\ [][NextPlayback]_vars

(***************************************************************************)
(* AudioRecorder: start, its asynchronous setup, and stop.                 *)
(***************************************************************************)
\* the recorder's fields and the objects they refer to, as one value
Recorder ==
  [stream |-> stream, audioContext |-> audioContext, source |-> source,
   recordingWorklet |-> recordingWorklet, vuWorklet |-> vuWorklet,
   starting |-> starting, recording |-> recording,
   tracks |-> tracks, nodes |-> nodes, starts |-> starts]

FreeStreams == {m \in MicStreams : tracks[m] = "none"}
NewStream == CHOOSE m \in FreeStreams : \A r \in FreeStreams : m <= r
FreeNodes == {n \in Nodes : nodes[n].state = "none"}
NewNode == CHOOSE n \in FreeNodes : \A r \in FreeNodes : n <= r
FreeStarts == {r \in Starts : starts[r].pc = "idle"}
NewStart == CHOOSE r \in FreeStarts : \A q \in FreeStarts : r <= q

\* the recording worklet is fed: a node on a live stream is connected to it
Feeding(st, n) ==
  /\ st.nodes[n].wired
  /\ st.nodes[n].stream # NoStream
  /\ st.tracks[st.nodes[n].stream] = "live"

\* nodes that nothing refers to and that feed nothing are garbage, and so are
\* stopped streams once no field and no run refers to them
SweepRecorder(st) ==
  LET kept == [n \in Nodes |->
                 IF n # st.source /\ ~Feeding(st, n)
                   THEN FreeNode
                   ELSE IF st.nodes[n].stream # NoStream
                             /\ st.tracks[st.nodes[n].stream] # "live"
                     THEN [st.nodes[n] EXCEPT !.stream = NoStream]
                     ELSE st.nodes[n]]
  IN [st EXCEPT
        !.nodes = kept,
        !.tracks = [m \in MicStreams |->
                      IF /\ st.tracks[m] = "stopped"
                         /\ m # st.stream
                         /\ \A r \in Starts : st.starts[r].acquired # m
                        THEN "none"
                        ELSE st.tracks[m]]]

\* the cleanup closure of stop(), followed by resetState()
cleanup(st) ==
  [st EXCEPT
     !.nodes = IF st.source # NoNode
                 THEN [st.nodes EXCEPT ![st.source].wired = FALSE]
                 ELSE st.nodes,
     !.tracks = IF st.stream # NoStream
                  THEN [st.tracks EXCEPT ![st.stream] = "stopped"]
                  ELSE st.tracks,
     !.recording = FALSE,
     !.stream = NoStream,
     !.recordingWorklet = FALSE,
     !.vuWorklet = FALSE]

\* the promise of run r settles: `finally` clears `starting`; the cleanup
\* attached by stop() runs only when the promise was resolved
Settled(st, r, resolved) ==
  LET done == [st EXCEPT !.recording = IF resolved THEN TRUE ELSE @,
                         !.starting = NoStart,
                         !.starts = [@ EXCEPT ![r] = IdleStart]]
  IN IF resolved /\ st.starts[r].cleanup THEN cleanup(done) ELSE done

\* one awaited step of initializeAudioChain of run r ends, with or without
\* an error
StepRun(st, r, ok) ==
  LET run == st.starts[r]
  IN CASE run.pc = "getUserMedia" ->
            IF ok
              THEN [st EXCEPT !.tracks = [@ EXCEPT ![NewStream] = "live"],
                              !.stream = NewStream,
                              !.starts = [@ EXCEPT ![r].pc = "getAudioContext",
                                                   ![r].acquired = NewStream]]
              ELSE Settled(st, r, FALSE)
       [] run.pc = "getAudioContext" ->
            IF ok /\ st.stream # NoStream
              THEN [st EXCEPT !.audioContext = TRUE,
                              !.nodes = [@ EXCEPT ![NewNode] =
                                           [state |-> "made", stream |-> st.stream,
                                            wired |-> FALSE]],
                              !.source = NewNode,
                              !.starts = [@ EXCEPT ![r].pc = "recordingModule"]]
              \* createMediaStreamSource(undefined) throws
              ELSE Settled([st EXCEPT !.audioContext = (ok \/ @)], r, FALSE)
       [] run.pc = "recordingModule" ->
            IF ok
              THEN [st EXCEPT !.recordingWorklet = TRUE,
                              !.nodes = [@ EXCEPT ![st.source].wired = TRUE],
                              !.starts = [@ EXCEPT ![r].pc = "vuModule"]]
              ELSE Settled(st, r, FALSE)
       [] run.pc = "vuModule" ->
            IF ok
              THEN Settled([st EXCEPT !.vuWorklet = TRUE], r, TRUE)
              ELSE Settled(st, r, FALSE)

SetRecorder(st) ==
  LET swept == SweepRecorder(st)
  IN /\ stream' = swept.stream
     /\ audioContext' = swept.audioContext
     /\ source' = swept.source
     /\ recordingWorklet' = swept.recordingWorklet
     /\ vuWorklet' = swept.vuWorklet
     /\ starting' = swept.starting
     /\ recording' = swept.recording
     /\ tracks' = swept.tracks
     /\ nodes' = swept.nodes
     /\ starts' = swept.starts

\* start(): rejects without media support, else begins the setup and holds
\* its promise in `starting`
Start(supported) ==
  /\ IF ~supported
       THEN /\ SetRecorder(Recorder)
            /\ lastR' = RecorderOp("start", "rejected", NoStream, FALSE)
       ELSE /\ FreeStarts # {}
            /\ SetRecorder([Recorder EXCEPT
                              !.starting = NewStart,
                              !.starts = [@ EXCEPT ![NewStart].pc = "getUserMedia"]])
            /\ lastR' = RecorderOp("start", "pending", NoStream, FALSE)
  /\ UNCHANGED nonRecorderVars

\* an awaited step of the setup of run r ends
RunStep(r, ok) ==
  /\ starts[r].pc # "idle"
  /\ (starts[r].pc = "getUserMedia" /\ ok) => FreeStreams # {}
  /\ (starts[r].pc = "getAudioContext" /\ ok) => FreeNodes # {}
  /\ LET after == StepRun(Recorder, r, ok)
     IN /\ SetRecorder(after)
        /\ lastR' = IF after.starts[r].pc # "idle"
                       THEN RecorderOp("step", "pending", after.starts[r].acquired,
                                       starts[r].cleanup)
                       ELSE RecorderOp("settle",
                                       IF starts[r].pc = "vuModule" /\ ok
                                         THEN "resolved" ELSE "rejected",
                                       starts[r].acquired, starts[r].cleanup)
  /\ UNCHANGED nonRecorderVars

\* stop(): deferred to the promise in `starting` when there is one
Stop ==
  /\ IF starting # NoStart
       THEN SetRecorder([Recorder EXCEPT !.starts = [@ EXCEPT ![starting].cleanup = TRUE]])
       ELSE SetRecorder(cleanup(Recorder))
  /\ lastR' = RecorderOp("stop", IF starting # NoStart THEN "deferred" ELSE "done",
                          stream, starting # NoStart)
  /\ UNCHANGED nonRecorderVars

\* the recording worklet posts a chunk: the recorder emits `data`
DataEvent ==
  /\ \E n \in Nodes : Feeding(Recorder, n)
  /\ lastR' = RecorderOp("data", "none", NoStream, FALSE)
  /\ UNCHANGED <<stream, audioContext, source, recordingWorklet, vuWorklet, starting,
                 recording, tracks, nodes, starts, nonRecorderVars>>

NextRecorder ==
  \/ \E supported \in BOOLEAN : Start(supported)
  \/ \E r \in Starts, ok \in BOOLEAN : RunStep(r, ok)
  \/ Stop
  \/ DataEvent

SpecRecorder == Init /\ [][NextRecorder]_vars

(***************************************************************************)
(* The log store: log, clearLogs, setMaxLogs.                              *)
(***************************************************************************)
\* Array.prototype.slice(start): a negative start counts from the end, and
\* -0 is 0, the start of the array
slice(array, start) ==
  LET len == Len(array)
      k == IF start < 0
             THEN (IF len + start < 0 THEN 0 ELSE len + start)
             ELSE (IF start > len THEN len ELSE start)
  IN SubSeq(array, k + 1, len)

\* a === b on messages: strings by value, objects by reference
StrictEquals(a, b) ==
  IF a.kind = "string" /\ b.kind = "string"
    THEN a.value = b.value
    ELSE a.kind = "object" /\ b.kind = "object" /\ a.ref = b.ref

isLogDuplicate(state, streamingLog) ==
  /\ state # <<>>
  /\ state[Len(state)].type = streamingLog.type
  /\ StrictEquals(state[Len(state)].message, streamingLog.message)

\* log(streamingLog): the logs of the next state
log(state, capacity, streamingLog) ==
  IF isLogDuplicate(state, streamingLog)
    THEN [state EXCEPT ![Len(state)].count = @ + 1]
    ELSE slice(state, -(capacity - 1)) \o <<streamingLog>>

LogCall(e) ==
  /\ Len(log(logs, maxLogs, e)) <= MaxLogLen
  /\ isLogDuplicate(logs, e) => logs[Len(logs)].count < MaxCount
  /\ logs' = log(logs, maxLogs, e)
  /\ lastL' = LoggerOp("log", e, isLogDuplicate(logs, e))
  /\ UNCHANGED <<maxLogs, nonLoggerVars>>

ClearLogs ==
  /\ logs' = <<>>
  /\ lastL' = LoggerOp("clearLogs", NoEntry, FALSE)
  /\ UNCHANGED <<maxLogs, nonLoggerVars>>

SetMaxLogs(n) ==
  /\ maxLogs' = n
  /\ lastL' = LoggerOp("setMaxLogs", NoEntry, FALSE)
  /\ UNCHANGED <<logs, nonLoggerVars>>

NextLogger ==
  \/ \E e \in StreamingLogs : LogCall(e)
  \/ ClearLogs
  \/ \E n \in Capacities : SetMaxLogs(n)

SpecLogger == Init /\ [][NextLogger]_vars

(***************************************************************************)
(* The AudioProcessingWorklet: process, processChunk, sendAndClearBuffer.  *)
(***************************************************************************)
\* the lengths of the first channel that process() is handed
BlockLengths == {0, 96, 128, BUFFER_SIZE}

\* the test of processChunk with > for >=
FullStrict(index) == index > BUFFER_SIZE

\* processChunk: bufferWriteIndex >= buffer.length
Full(index) == index >= BUFFER_SIZE

\* the length of buffer.slice(0, index)
SliceLength(index) == IF index > BUFFER_SIZE THEN BUFFER_SIZE ELSE index

\* A sample is named by its place in the input (1, 2, ...), and a sequence of
\* samples is written as its runs of consecutive samples, in order:
\* <<[from |-> 1, to |-> 5], [from |-> 9, to |-> 9]>> is 1 2 3 4 5 9.
AppendSample(runs, sample) ==
  IF runs # <<>> /\ runs[Len(runs)].to + 1 = sample
    THEN [runs EXCEPT ![Len(runs)].to = sample]
    ELSE Append(runs, [from |-> sample, to |-> sample])

\* the sequence a followed by the sequence b
Concat(a, b) ==
  IF a = <<>> \/ b = <<>> \/ a[Len(a)].to + 1 # b[1].from
    THEN a \o b
    ELSE SubSeq(a, 1, Len(a) - 1)
           \o <<[from |-> a[Len(a)].from, to |-> b[1].to]>>
           \o SubSeq(b, 2, Len(b))

\* the samples 1 .. n in order
FirstSamples(n) == IF n = 0 THEN <<>> ELSE <<[from |-> 1, to |-> n]>>

RECURSIVE SamplesLength(_)
SamplesLength(runs) ==
  IF runs = <<>> THEN 0
  ELSE (runs[1].to - runs[1].from + 1) + SamplesLength(Tail(runs))

\* sendAndClearBuffer that posts the buffer and leaves the write index
sendAndKeepBuffer(w) ==
  IF w.index > 0
    THEN [w EXCEPT !.chunks = Append(@, SliceLength(w.index)),
                   !.posted = Concat(@, w.buffer)]
    ELSE w

\* w: the write index, the buffer below it, the samples handed in and the
\* chunks posted so far (their lengths for this callback, their samples since
\* the input began). buffer.slice(0, index) is all of w.buffer.
sendAndClearBuffer(w) ==
  IF w.index > 0
    THEN [w EXCEPT !.index = 0,
                   !.buffer = <<>>,
                   !.chunks = Append(@, SliceLength(w.index)),
                   !.posted = Concat(@, w.buffer)]
    ELSE w

\* the body of the loop of processChunk: one sample is written (a write past
\* the end of the Int16Array stores nothing)
writeSample(w) ==
  LET wrote == [w EXCEPT !.index = @ + 1,
                         !.fed = @ + 1,
                         !.buffer = IF w.index < BUFFER_SIZE
                                      THEN AppendSample(@, w.fed + 1)
                                      ELSE @]
  IN IF Full(wrote.index) THEN sendAndClearBuffer(wrote) ELSE wrote

\* the passes lo .. hi-1 of the loop, one after the other. The range is
\* halved, and w (whose index is never negative) is evaluated before its
\* passes start, to keep the evaluation shallow.
RECURSIVE processSamples(_, _, _)
processSamples(w, lo, hi) ==
  IF lo >= hi \/ w.index < 0
    THEN w
    ELSE IF hi = lo + 1
      THEN writeSample(w)
      ELSE LET mid == (lo + hi) \div 2
           IN processSamples(processSamples(w, lo, mid), mid, hi)

processChunk(w, length) == processSamples(w, 0, length)

\* the worklet as a callback finds it; an input begins with the first block
\* after the worklet was not receiving
Worklet ==
  [index |-> bufferWriteIndex,
   buffer |-> bufferSamples,
   fed |-> IF isReceivingAudio THEN fed ELSE 0,
   posted |-> IF isReceivingAudio THEN posted ELSE <<>>,
   chunks |-> <<>>]

\* process(inputs) with at least one channel in inputs[0]
ProcessBlock(length) ==
  /\ Worklet.fed + length <= MaxFed
  /\ LET w == processChunk(Worklet, length)
     IN /\ isReceivingAudio' = TRUE
        /\ bufferWriteIndex' = w.index
        /\ bufferSamples' = w.buffer
        /\ fed' = w.fed
        /\ posted' = w.posted
        /\ lastW' = WorkletOp("block", bufferWriteIndex, length, w.chunks)
  /\ UNCHANGED nonWorkletVars

\* process(inputs) without a channel: the end of the stream when audio was
\* being received
ProcessSilence ==
  /\ LET before == [index |-> bufferWriteIndex, buffer |-> bufferSamples,
                    fed |-> fed, posted |-> posted, chunks |-> <<>>]
         w == IF isReceivingAudio /\ bufferWriteIndex > 0
                THEN sendAndClearBuffer(before)
                ELSE before
     IN /\ isReceivingAudio' = FALSE
        /\ bufferWriteIndex' = w.index
        /\ bufferSamples' = w.buffer
        /\ fed' = w.fed
        /\ posted' = w.posted
        /\ lastW' = WorkletOp("silence", bufferWriteIndex, 0, w.chunks)
  /\ UNCHANGED nonWorkletVars

NextWorklet ==
  \/ \E n \in BlockLengths : ProcessBlock(n)
  \/ ProcessSilence

SpecWorklet == Init /\ [][NextWorklet]_vars

(***************************************************************************)
(* parseCloseReason, as the close listener calls it.                       *)
(***************************************************************************)
LowerCase(c) ==
  CASE c = "E" -> "e"
    [] c = "R" -> "r"
    [] c = "O" -> "o"
    [] OTHER -> c

toLowerCase(s) == [i \in DOMAIN s |-> LowerCase(s[i])]

\* String.prototype.indexOf: the first position (from 0) of sub in s, else -1
indexOf(s, sub) ==
  LET found == {i \in 0..(Len(s) - Len(sub)) : SubSeq(s, i + 1, i + Len(sub)) = sub}
  IN IF found = {} THEN -1 ELSE CHOOSE i \in found : \A j \in found : i <= j

includes(s, sub) == indexOf(s, sub) # -1

parseCloseReason(reason) ==
  IF ~includes(toLowerCase(reason), <<"e", "r", "r", "o", "r">>)
    THEN reason
    ELSE LET prelude == Marker
             preludeIndex == indexOf(reason, prelude)
         IN IF preludeIndex > 0
              THEN slice(reason, preludeIndex + Len(prelude) + 1)
              ELSE reason

\* the close listener reads the reason of the close event
HandleCloseReason(reason) ==
  /\ closeReason' = reason
  /\ parsedReason' = parseCloseReason(reason)
  /\ UNCHANGED nonReasonVars

NextReason == \E reason \in CloseReasons : HandleCloseReason(reason)

SpecReason == Init /\ [][NextReason]_vars

(***************************************************************************)
(* The worklet's conversion of one sample.                                 *)
(***************************************************************************)
\* Math.round(num / den): the nearest integer, a tie going up
MathRound(num, den) == (2 * num + den) \div (2 * den)

\* the value an Int16Array element holds after v is assigned to it
ToInt16(v) == ((v + 32768) % 65536) - 32768

\* buffer[...] = Math.round(float32Array[i] * conversionFactor)
convertSample(x) == ToInt16(MathRound(x * INT16_MAX, SampleUnit))

ConvertSample(x) ==
  /\ floatSample' = x
  /\ int16Sample' = convertSample(x)
  /\ UNCHANGED nonSampleVars

NextSample == \E x \in FloatSamples : ConvertSample(x)

SpecSample == Init /\ [][NextSample]_vars

(***************************************************************************)
(* Properties.                                                             *)
(***************************************************************************)
Emits(name) == \E i \in DOMAIN emitted : emitted[i].ev = name
EmitsProtocolEvent == \E i \in DOMAIN emitted : emitted[i].ev \in ProtocolEvents
\* the events other than log entries, in order
Visible == SelectSeq(emitted, LAMBDA e : e.ev # "log")
Opened(s) == sock[s] \in {"open", "closing", "closed"}
SetupCount(s) == Cardinality({i \in DOMAIN sent[s] : sent[s][i].kind = "setup"})

\* C1: the first frame handed to a socket is a Setup frame carrying a config
\* and exactly one Setup frame is sent on it; and once the open event of a
\* socket has been handled under a stored config, that socket has been handed
\* its Setup frame, whatever an `open` listener did.
C1_SetupFirstOnEveryOpenedSocket ==
  /\ \A s \in Sockets :
       sent[s] # <<>> =>
         /\ sent[s][1].kind = "setup"
         /\ sent[s][1].data \in Configs
         /\ SetupCount(s) = 1
  /\ (last.op = "open" /\ config # NullConfig) =>
       /\ Opened(last.sock)
       /\ sent[last.sock] # <<>>

\* C2: send, sendRealtimeInput and sendToolResponse called without a stored
\* socket throw: no frame reaches a transport, no log is emitted, and the
\* stored socket and config stay as they were (also for a send made by an
\* `open` listener before the socket is stored).
C2_SendWithoutSocketFails ==
  [][ /\ (last'.op \in SendKinds /\ ws = NoSocket) =>
           /\ last'.ret = "throw"
           /\ emitted' = <<>>
           /\ sent' = sent /\ ws' = ws /\ config' = config /\ sock' = sock
      /\ (last'.op \in SendKinds /\ ws # NoSocket) => last'.ret = "none"
      /\ (last'.op = "open" /\ last'.ret = "throw") =>
           /\ ws = NoSocket
           /\ ~(\E i \in DOMAIN emitted' : emitted'[i] = Log("client.send"))
           /\ sent' = sent /\ ws' = ws /\ config' = config
    ]_vars

\* a send failed after a disconnect() whose socket is still closing
C2_Witness ==
  /\ last.op \in SendKinds
  /\ last.ret = "throw"
  /\ \E s \in Sockets : sock[s] = "closing"

\* C3: a connect() call makes at most reconnectAttempts attempts, each on a
\* fresh socket; it waits once between two attempts and never after the last;
\* it resolves on the first attempt that opens, and rejects only after the
\* last attempt failed, with the error of that attempt's socket.
C3_BoundedRetry ==
  /\ \A c \in Calls :
       /\ calls[c].attempt \in 0..reconnectAttempts
       /\ calls[c].pc = "handshake" =>
            /\ calls[c].attempt >= 1
            /\ calls[c].delays = calls[c].attempt - 1
            /\ sock[calls[c].sock] \in {"connecting", "open", "closed"}
       /\ calls[c].pc = "delay" =>
            /\ calls[c].attempt \in 1..(reconnectAttempts - 1)
            /\ calls[c].delays = calls[c].attempt
  /\ last.op \in {"connect", "delay"} =>
       /\ sock[last.sock] = "connecting"
       /\ sent[last.sock] = <<>>
       /\ lsn[last.sock] = {"error"}
       /\ ws # last.sock
       /\ \A d \in decoding : d.sock # last.sock
       /\ \E c \in Calls : calls[c].pc = "handshake" /\ calls[c].sock = last.sock
  /\ last.out.result = "rejected" =>
       /\ last.out.attempt = reconnectAttempts
       /\ last.out.delays = reconnectAttempts - 1
       /\ last.out.err = last.sock
  /\ last.out.result = "delay" => last.out.attempt < reconnectAttempts
  /\ last.out.result = "resolved" =>
       /\ last.op = "open"
       /\ ws = last.sock
       /\ last.out.attempt \in 1..reconnectAttempts
       /\ last.out.delays = last.out.attempt - 1
       /\ \A c \in Calls : calls[c].sock # last.sock

\* connect() has just rejected after its last attempt failed
C3_Witness == last.out.result = "rejected" /\ last.op = "error"

\* C4: at most one socket of the client is open at any time, and a connect()
\* leaves no earlier socket stored and open while it sets up a new one.
C4_AtMostOneOpenSocket ==
  /\ Cardinality({s \in Sockets : sock[s] = "open"}) <= 1
  /\ last.op = "connect" => ws = NoSocket

\* C5: no protocol event is emitted for a frame of a socket that disconnect()
\* has closed and cleared.
C5_NoDispatchAfterDisconnect ==
  ~(last.op = "receive" /\ sock[last.sock] = "closing" /\ EmitsProtocolEvent)

C7_DecodeNeverRejects ==
  (last.op = "receive" /\ last.arg.body = Invalid) => last.ret = "resolve"

\* the recognised message shapes a decoded body matches
Recognised(body) ==
  {k \in {"toolCall", "toolCallCancellation", "setupComplete", "serverContent"} :
     CASE k = "toolCall" -> isToolCallMessage(body)
       [] k = "toolCallCancellation" -> isToolCallCancellationMessage(body)
       [] k = "setupComplete" -> isSetupCompleteMessage(body)
       [] k = "serverContent" -> isServerContenteMessage(body)}

Received == last.op = "receive" /\ last.ret = "resolve"

\* C8: a frame that matches none or more than one of the recognised shapes is
\* unmatched and emits no protocol event.
C8_ExactlyOneShape ==
  (Received /\ Cardinality(Recognised(last.arg.body)) # 1) =>
    /\ last.arg.matched = "unmatched"
    /\ ~EmitsProtocolEvent

\* C9: a frame matching exactly one of toolCall, toolCallCancellation and
\* setupComplete emits exactly its own event, carrying its payload, and no
\* other; setupcomplete is emitted only for a setupComplete frame, and frames
\* are only ever received on sockets that have opened.
C9_OwnEventOnly ==
  /\ (Received /\ Recognised(last.arg.body) = {"toolCall"}) =>
       Visible = <<Event("toolcall", last.arg.body.toolCall)>>
  /\ (Received /\ Recognised(last.arg.body) = {"toolCallCancellation"}) =>
       Visible = <<Event("toolcallcancellation", last.arg.body.toolCallCancellation)>>
  /\ (Received /\ Recognised(last.arg.body) = {"setupComplete"}) =>
       Visible = <<Event("setupcomplete", None)>>
  /\ Emits("setupcomplete") =>
       Received /\ "setupComplete" \in Recognised(last.arg.body)
  /\ \A d \in decoding : Opened(d.sock)

\* a toolCallCancellation frame has just been dispatched
C9_Witness == Received /\ Emits("toolcallcancellation")

\* a serverContent with a boolean turnComplete and a modelTurn with parts
CarriesBoth(sc) ==
  sc.t = "object" /\ TypeOf(sc.turnComplete) = "boolean" /\ sc.modelTurn.t = "object"

CountOf(name) == Cardinality({i \in DOMAIN Visible : Visible[i].ev = name})

\* turncomplete comes first, then one audio event per audio part that has
\* data and one content event when a non-audio part exists
BothProcessed(sc) ==
  LET parts == sc.modelTurn.parts
      audio == {i \in DOMAIN parts : IsAudioPart(parts[i]) /\ parts[i].data # ""}
      other == {i \in DOMAIN parts : ~IsAudioPart(parts[i])}
  IN /\ Len(Visible) >= 1
     /\ Visible[1].ev = "turncomplete"
     /\ \A i \in 2..Len(Visible) : Visible[i].ev \in {"audio", "content"}
     /\ CountOf("audio") = Cardinality(audio)
     /\ CountOf("content") = IF other = {} THEN 0 ELSE 1

\* C10 as stated: a serverContent frame carrying turnComplete and modelTurn
\* has both processed, turncomplete first.
C10_BothProcessedTurnCompleteFirst ==
  (Received /\ last.arg.matched = "serverContent"
     /\ CarriesBoth(last.arg.body.serverContent)) =>
    BothProcessed(last.arg.body.serverContent)

\* C10 amended: the same for a frame that carries no interrupted field; and
\* in every frame no audio or content event precedes a turncomplete event.
C10_TurnCompleteFirstUnlessInterrupted ==
  /\ (Received /\ last.arg.matched = "serverContent"
        /\ CarriesBoth(last.arg.body.serverContent)
        /\ last.arg.body.serverContent.interrupted.t = "absent") =>
       BothProcessed(last.arg.body.serverContent)
  /\ \A i, j \in DOMAIN Visible :
       (Visible[i].ev = "turncomplete" /\ Visible[j].ev \in {"audio", "content"})
         => i < j

\* a frame with turnComplete, an audio part and a text part was dispatched
C10_Witness ==
  Received /\ Emits("turncomplete") /\ Emits("audio") /\ Emits("content")

\* the frame was dispatched to processModelTurn, which ran to its end
ModelTurnProcessed ==
  /\ Received
  /\ last.arg.matched = "serverContent"
  /\ last.arg.body.serverContent.t = "object"
  /\ last.arg.body.serverContent.interrupted.t = "absent"
  /\ last.arg.body.serverContent.modelTurn.t = "object"

ReceivedParts == last.arg.body.serverContent.modelTurn.parts

\* the positions of the parts whose inlineData mimeType starts with audio/pcm
AudioPositions(parts) ==
  {i \in DOMAIN parts : parts[i].inline /\ StartsWithAudioPcm(parts[i].mimeType)}

\* the parts at the positions idx, in the order they have in parts
PartsAt(parts, idx) ==
  [k \in 1..Cardinality(idx) |->
     parts[CHOOSE i \in idx : Cardinality({j \in idx : j < i}) = k - 1]]

\* C11: the audio partition and the non-audio partition of a modelTurn's
\* parts are the parts at the audio positions and at the other positions,
\* each in source order: they are disjoint, cover every part once, and their
\* lengths add up to the length of the list.
C11_PartitionOfParts ==
  ModelTurnProcessed =>
    LET sep == separateContentParts(ReceivedParts)
        audio == AudioPositions(ReceivedParts)
    IN /\ sep.audioParts = PartsAt(ReceivedParts, audio)
       /\ sep.otherParts = PartsAt(ReceivedParts, DOMAIN ReceivedParts \ audio)
       /\ Len(sep.audioParts) + Len(sep.otherParts) = Len(ReceivedParts)
       /\ (Emits("content") =>
             \E i \in DOMAIN emitted :
               emitted[i] = Event("content", [t |-> "content", parts |-> sep.otherParts]))

\* a model turn with a non-audio part followed by an audio part was processed
C11_Witness ==
  /\ ModelTurnProcessed
  /\ Len(ReceivedParts) = 2
  /\ AudioPositions(ReceivedParts) = {2}

AudioEvents == SelectSeq(Visible, LAMBDA e : e.ev = "audio")
ContentEvents == SelectSeq(Visible, LAMBDA e : e.ev = "content")

\* the audio events that the parts at the positions idx call for
AudioEventsFor(parts, idx) ==
  [k \in 1..Cardinality(idx) |->
     Event("audio", [t |-> "bytes",
                     bytes |-> base64ToArrayBuffer(PartsAt(parts, idx)[k].data)])]

ContentEventsFor(parts) ==
  LET other == DOMAIN parts \ AudioPositions(parts)
  IN IF other = {}
       THEN <<>>
       ELSE <<Event("content", [t |-> "content", parts |-> PartsAt(parts, other)])>>

\* C12 as stated: one audio event per audio part, in part order, with the
\* decoded bytes; one content event with all non-audio parts when there is one.
C12_OneAudioEventPerAudioPart ==
  ModelTurnProcessed =>
    /\ AudioEvents = AudioEventsFor(ReceivedParts, AudioPositions(ReceivedParts))
    /\ ContentEvents = ContentEventsFor(ReceivedParts)

\* C12 amended: one audio event per audio part whose data is not empty, in
\* part order, with the decoded bytes; an audio part with empty data emits
\* nothing; one content event with all non-audio parts, in order, when at
\* least one exists and none otherwise.
C12_OneAudioEventPerNonEmptyAudioPart ==
  ModelTurnProcessed =>
    /\ AudioEvents =
         AudioEventsFor(ReceivedParts,
                        {i \in AudioPositions(ReceivedParts) : ReceivedParts[i].data # ""})
    /\ ContentEvents = ContentEventsFor(ReceivedParts)

\* two audio parts with different data were played in part order
C12_Witness ==
  /\ ModelTurnProcessed
  /\ Len(AudioEvents) = 2
  /\ AudioEvents[1] # AudioEvents[2]

\* the sources of streamer k that are playing
LiveOf(k) == {s \in PcmSources : src[s].state = "live" /\ src[s].owner = k}

\* C13: a streamer has at most one live source, the one it refers to;
\* addPCM16 leaves the new source live with the chunk's samples (the previous
\* one stopped), and stop() leaves the streamer without a source.
C13_AtMostOneLiveSourcePerStreamer ==
  /\ \A k \in DOMAIN pcmSource :
       /\ LiveOf(k) \subseteq {pcmSource[k]}
       /\ Cardinality(LiveOf(k)) <= 1
  /\ (lastP.data # NoChunk /\ ~lastP.threw) =>
       /\ LiveOf(lastP.streamer) = {pcmSource[lastP.streamer]}
       /\ src[pcmSource[lastP.streamer]].buffer = PCM16Buffer(lastP.data)
  /\ lastP.stop =>
       /\ pcmSource[lastP.streamer] = NoSource
       /\ LiveOf(lastP.streamer) = {}

\* addPCM16 has replaced a source of the only streamer: the first source
\* took slot 1, its replacement slot 2
C13_Witness ==
  /\ Len(pcmSource) = 1
  /\ lastP.op = "audio" /\ lastP.data # NoChunk /\ ~lastP.threw
  /\ pcmSource[1] = 2

\* C14: once the `interrupted` handler has run no source is live; it calls
\* stop() on the streamer the hook refers to; and no other event calls stop().
C14_InterruptedCancelsPlayback ==
  /\ lastP.op = "interrupted" =>
       /\ \A s \in PcmSources : src[s].state # "live"
       /\ lastP.streamer # NoStreamer => lastP.stop
  /\ lastP.stop => lastP.op = "interrupted"

\* C15: when the setup of a start() settles after stop() was called during
\* it, the stream that start() acquired is no longer live and `recording` is
\* false, whether the setup succeeded or failed.
C15_StopDuringSetupHonored ==
  (lastR.op = "settle" /\ lastR.stopRequested) =>
    /\ ~recording
    /\ lastR.acquired # NoStream => tracks[lastR.acquired] # "live"

\* C16: when start() rejects, `recording` is false, the stream acquired
\* during that start() is not live, and nothing feeds the recording worklet
\* any more, so that no `data` event can follow.
C16_RejectedStartLeavesStopped ==
  (lastR.op \in {"start", "settle"} /\ lastR.result = "rejected") =>
    /\ ~recording
    /\ lastR.acquired # NoStream => tracks[lastR.acquired] # "live"
    /\ ~(\E n \in Nodes : Feeding(Recorder, n))

\* C17: the stored socket reference is either null or a socket that has
\* opened, that the client has not closed and whose close event has not been
\* processed; the socket torn down by disconnect(), by a close event or by a
\* handshake error is not the stored one afterwards.
C17_StoredSocketIsOpen ==
  /\ ws # NoSocket => sock[ws] = "open" /\ "close" \in lsn[ws]
  /\ (last.op \in {"disconnect", "close", "error"} /\ last.sock # NoSocket) =>
        ws # last.sock

\* the stored socket has just been torn down by its close event while another
\* connection attempt is still in progress
C17_Witness ==
  /\ last.op = "close"
  /\ Emits("close")
  /\ ws = NoSocket
  /\ \E s \in Sockets : sock[s] = "connecting"

\* C18: the number of stored entries never exceeds maxLogs, whatever the
\* capacity and also after it is lowered, and an appended entry is the
\* newest stored one.
C18_LogsWithinCapacity ==
  /\ Len(logs) <= maxLogs
  /\ (lastL.op = "log" /\ ~lastL.merged) => logs[Len(logs)] = lastL.entry

\* the payloads are the same: equal strings, or objects of equal content
SamePayload(a, b) == a.kind = b.kind /\ a.value = b.value

\* C19: log(e) merges e into the last entry, raising its count by one and
\* leaving the other entries alone, exactly when the last entry has the type
\* and the payload of e; otherwise e becomes a new last entry.
C19_MergeIffIdentical ==
  [][ lastL'.op = "log" =>
        LET e == lastL'.entry
            identical == /\ logs # <<>>
                         /\ logs[Len(logs)].type = e.type
                         /\ SamePayload(logs[Len(logs)].message, e.message)
        IN IF identical
             THEN /\ Len(logs') = Len(logs)
                  /\ \A i \in 1..(Len(logs) - 1) : logs'[i] = logs[i]
                  /\ logs'[Len(logs)] =
                       [logs[Len(logs)] EXCEPT !.count = @ + 1]
             ELSE /\ logs' # <<>>
                  /\ logs'[Len(logs')] = e
                  /\ \A i \in 1..(Len(logs') - 1) :
                       logs'[i] = logs[Len(logs) - (Len(logs') - 1) + i]
    ]_vars

\* C20: a process() callback posts a chunk exactly when the buffer becomes
\* full (once per BUFFER_SIZE samples written) or when the input ends while
\* the buffer holds samples; every chunk posted holds 1..BUFFER_SIZE
\* samples, and between callbacks the write index is in 0..BUFFER_SIZE-1.
C20_ChunkOnFullOrEnd ==
  /\ bufferWriteIndex \in 0..(BUFFER_SIZE - 1)
  /\ \A i \in 1..Len(lastW.chunks) : lastW.chunks[i] \in 1..BUFFER_SIZE
  /\ lastW.op = "block" =>
        /\ Len(lastW.chunks) = (lastW.before + lastW.length) \div BUFFER_SIZE
        /\ \A i \in 1..Len(lastW.chunks) : lastW.chunks[i] = BUFFER_SIZE
        /\ bufferWriteIndex = (lastW.before + lastW.length) % BUFFER_SIZE
  /\ lastW.op = "silence" =>
        /\ lastW.chunks = IF lastW.before > 0 THEN <<lastW.before>> ELSE <<>>
        /\ bufferWriteIndex = 0

\* the input ended while the buffer was partly filled, and what it held was
\* posted as one chunk
C20_Witness ==
  /\ lastW.op = "silence"
  /\ lastW.before \in 1..(BUFFER_SIZE - 1)
  /\ lastW.chunks = <<lastW.before>>

\* the signed 16-bit integer whose big-endian bytes are hi, lo
Signed16(hi, lo) ==
  IF hi * 256 + lo >= 32768 THEN hi * 256 + lo - 65536 ELSE hi * 256 + lo

\* C21: addPCM16 on 2n bytes makes a buffer of n samples; sample k is, before
\* the division by 32768, the signed 16-bit big-endian integer of bytes 2k
\* and 2k+1, hence in -32768..32767.
C21_SignedBigEndianSamples ==
  (lastP.data # NoChunk /\ ~lastP.threw /\ Len(lastP.data) % 2 = 0) =>
    LET data == lastP.data
        buffer == src[pcmSource[lastP.streamer]].buffer
    IN /\ Len(buffer) = Len(data) \div 2
       /\ \A k \in 1..Len(buffer) :
            /\ buffer[k] = Signed16(data[2 * k - 1], data[2 * k])
            /\ buffer[k] \in -32768..32767

\* the positions (from 1) at which the marker starts in s
MarkerAt(s) ==
  {i \in 1..(Len(s) - Len(Marker) + 1) : SubSeq(s, i, i + Len(Marker) - 1) = Marker}

\* C22: with the marker anywhere in the reason, the start included,
\* parseCloseReason returns exactly what follows the marker; without the
\* marker it returns the reason unchanged.
C22_ReasonAfterMarker ==
  IF MarkerAt(closeReason) = {}
    THEN parsedReason = closeReason
    ELSE LET first == CHOOSE i \in MarkerAt(closeReason) :
                        \A j \in MarkerAt(closeReason) : i <= j
         IN parsedReason = SubSeq(closeReason, first + Len(Marker), Len(closeReason))

\* C23: connect() without a config throws to its caller at once: it creates
\* no socket and starts no handshake attempt.
C23_ConnectWithoutConfigThrows ==
  (last.op = "connect" /\ config = NullConfig) =>
    /\ last.ret = "throw"
    /\ last.sock = NoSocket
    /\ \A s \in Sockets : sock[s] # "connecting"

\* C24: when disconnect() has returned while a connect() was in progress and
\* the socket of that connect() opens next, the socket does not become the
\* stored one, no Setup frame is sent and no `open` event is emitted.
C24_DisconnectCancelsConnect ==
  [][ (last.op = "disconnect" /\ last'.op = "open") =>
        /\ ws' = NoSocket
        /\ sent' = sent
        /\ \A i \in DOMAIN emitted' : emitted'[i].ev # "open"
    ]_vars

\* the log entries of type tag that the last operation emitted
LogCount(tag) == Cardinality({i \in DOMAIN emitted : emitted[i] = Log(tag)})
EventCount(names) == Cardinality({i \in DOMAIN emitted : emitted[i].ev \in names})

\* the inbound events logged under each type tag
InboundTags ==
  {"server.toolCall", "receive.toolCallCancellation", "server.send",
   "receive.serverContent", "server.audio", "server.content"}
InboundEvents(tag) ==
  CASE tag = "server.toolCall" -> {"toolcall"}
    [] tag = "receive.toolCallCancellation" -> {"toolcallcancellation"}
    [] tag = "server.send" -> {"setupcomplete", "turncomplete"}
    [] tag = "receive.serverContent" -> {"interrupted"}
    [] tag = "server.audio" -> {"audio"}
    [] tag = "server.content" -> {"content"}

OutboundTag(kind) ==
  CASE kind = "clientContent" -> "client.send"
    [] kind = "realtimeInput" -> "client.realtimeInput"
    [] kind = "toolResponse" -> "client.toolResponse"

\* C25: the operation that hands a frame to the transport emits exactly one
\* log entry for it, tagged client.<kind>, and a receive emits, for every
\* inbound event, exactly one log entry of the tag of that event.
C25_OneLogPerAction ==
  /\ (last.op \in SendKinds /\ last.ret = "none") =>
       emitted = <<Log(OutboundTag(last.op))>>
  /\ (last.op = "open" /\ last.ret = "resolve") => LogCount("client.send") = 1
  /\ last.op = "receive" =>
       /\ \A tag \in InboundTags : LogCount(tag) = EventCount(InboundEvents(tag))
       /\ EventCount({"log"}) = EventCount(ProtocolEvents)

\* a frame with a completed turn and two parts that are not audio: two events
C25_Witness ==
  /\ last.op = "receive"
  /\ Emits("turncomplete")
  /\ Emits("content")
  /\ EventCount({"log"}) = 2

FrameKinds == {"setup", "clientContent", "realtimeInput", "toolResponse"}

\* C26: every frame handed to a transport is of one of the four kinds, and
\* the frame of send(parts, turnComplete) is a clientContent with one turn of
\* role user that holds the parts in order (one part as a list of one), with
\* turnComplete true unless false was passed.
C26_FrameShapes ==
  /\ \A s \in Sockets : \A i \in DOMAIN sent[s] : sent[s][i].kind \in FrameKinds
  /\ (last.op = "open" /\ last.ret = "resolve") =>
       sent[last.sock][Len(sent[last.sock])] = Frame("setup", config)
  /\ (last.op = "clientContent" /\ last.ret = "none") =>
       LET frame == sent[last.sock][Len(sent[last.sock])]
           given == last.arg.args
       IN /\ frame.kind = "clientContent"
          /\ Len(frame.data.turns) = 1
          /\ frame.data.turns[1].role = "user"
          /\ frame.data.turns[1].parts =
               IF given.parts.array THEN given.parts.parts ELSE <<given.parts.part>>
          /\ frame.data.turnComplete = (given.turnComplete.t = "absent" \/ given.turnComplete.v)

\* send(part) with a single part and without turnComplete
C26_Witness ==
  /\ last.op = "clientContent"
  /\ last.ret = "none"
  /\ ~last.arg.args.parts.array
  /\ last.arg.args.turnComplete = Absent

\* the frames of a are those of b, in the same order
SameFrames(a, b) ==
  /\ Len(a) = Len(b)
  /\ \A i \in 1..Len(a) : a[i].kind = b[i].kind /\ a[i].data = b[i].data

\* C27: a successful send, sendRealtimeInput or sendToolResponse appends
\* exactly one frame, of its kind, to the frames of the stored socket and
\* leaves the frames before it as they were; a failed call, and every other
\* operation but the open listener's Setup, hands no frame to any socket.
C27_FramesInCallOrder ==
  [][ \A s \in Sockets :
        IF last'.op \in SendKinds /\ last'.ret = "none" /\ s = ws
          THEN /\ Len(sent'[s]) = Len(sent[s]) + 1
               /\ SameFrames(SubSeq(sent'[s], 1, Len(sent[s])), sent[s])
               /\ sent'[s][Len(sent'[s])].kind = last'.op
               /\ sent'[s][Len(sent'[s])].data = Request(last'.op, last'.arg.args)
          ELSE IF last'.op = "open" /\ last'.ret = "resolve" /\ s = last'.sock
            THEN SameFrames(sent'[s], Append(sent[s], Frame("setup", config)))
            ELSE SameFrames(sent'[s], sent[s]) \/ sock'[s] = "new"
    ]_vars

\* two calls of different methods after the Setup frame of the same socket
C27_Witness ==
  /\ last.op \in SendKinds
  /\ last.ret = "none"
  /\ Len(sent[ws]) = 3
  /\ sent[ws][1].kind = "setup"
  /\ sent[ws][2].kind # sent[ws][3].kind

\* C28: the stored config changes only in connect(config), which stores the
\* config it is given; disconnect() and the sockets' events leave it alone,
\* so getConfig() keeps returning the config of the latest connect().
C28_ConfigSurvivesDisconnect ==
  [][ IF last'.op = "connect"
        THEN getConfig(config') = last'.arg.config
        ELSE getConfig(config') = getConfig(config)
    ]_vars

\* disconnect() has closed the stored socket and the config is still there
C28_Witness ==
  /\ last.op = "disconnect"
  /\ last.ret = "true"
  /\ getConfig(config) \in Configs

\* C30: an error or close event of a socket that is not the stored one leaves
\* the stored reference as it is and does not close the stored socket.
C30_StrayEventsLeaveActiveSocket ==
  [][ (last'.op \in {"error", "close"} /\ last'.sock # ws) =>
        /\ ws' = ws
        /\ ws # NoSocket => sock'[ws] = sock[ws]
    ]_vars

\* a later handshake attempt has failed while an earlier socket is the stored
\* one
C30_Witness ==
  /\ last.op = "error"
  /\ ws # NoSocket
  /\ last.sock # ws
  /\ sock[ws] = "open"

\* the integer nearest to num / den, a tie going away from zero
RoundHalfAwayFromZero(num, den) ==
  IF num >= 0
    THEN (2 * num + den) \div (2 * den)
    ELSE -((2 * (-num) + den) \div (2 * den))

\* C29: a sample x in [-1, 1] is stored as the integer nearest to x * 32767,
\* a tie going away from zero, and the stored value is in -32767..32767.
C29_RoundHalfAwayFromZero ==
  /\ int16Sample = RoundHalfAwayFromZero(floatSample * INT16_MAX, SampleUnit)
  /\ int16Sample \in (-INT16_MAX)..INT16_MAX

\* C32: the hook creates at most one AudioStreamer, at most one
\* initializeAudio() run is in progress at a time, and at most one PCM source
\* is live across all the streamers.
C32_OneStreamerOneLiveSource ==
  /\ Len(pcmSource) <= 1
  /\ Cardinality({i \in InitRuns : inits[i].pc = "pending"}) <= 1
  /\ Cardinality({s \in PcmSources : src[s].state = "live"}) <= 1

\* C33: when `interrupted` has been handled while an initializeAudio() run
\* started by an earlier `audio` event was pending, and that run completes
\* next, the chunk of that event is not started.
C33_NoPlaybackAfterInterrupted ==
  [][ (lastP.op = "interrupted" /\ lastP'.op = "initDone") =>
        (lastP'.data = NoChunk \/ lastP'.threw)
    ]_vars

\* some start() is still setting up
SetupPending == \E r \in Starts : starts[r].pc # "idle"

\* C34: `starting` is set exactly while some start() is in progress, and
\* when stop() was the last call and no setup is pending, no microphone
\* track acquired by any start() is live and `recording` is false.
C34_StartStopInterleavings ==
  /\ (starting # NoStart) <=> SetupPending
  /\ (lastR.op = "stop" /\ ~SetupPending) =>
       /\ ~recording
       /\ \A m \in MicStreams : tracks[m] # "live"

\* C35: the chunks posted since the input began, end to end in the order
\* they were posted, followed by what the buffer still holds, are the
\* samples handed in since the input began, each once and in input order;
\* after the flush at the end of the input the buffer is empty and the
\* chunks alone are the whole input.
C35_ChunksAreTheInput ==
  /\ Concat(posted, bufferSamples) = FirstSamples(fed)
  /\ SamplesLength(bufferSamples) = bufferWriteIndex
  /\ lastW.op = "silence" =>
        /\ bufferWriteIndex = 0
        /\ bufferSamples = <<>>
        /\ posted = FirstSamples(fed)

\* an input of more than one buffer ended: a full chunk and a partial one
\* were posted
C35_Witness ==
  /\ lastW.op = "silence"
  /\ lastW.chunks # <<>>
  /\ fed > BUFFER_SIZE
  /\ posted = FirstSamples(fed)

\* the frame handled last went to handleServerContent
ServerContentHandled == last.op = "receive" /\ last.arg.matched = "serverContent"

\* C36: turncomplete is emitted only for a serverContent frame whose
\* turnComplete field is true; a frame whose turnComplete is false emits no
\* turncomplete event.
C36_TurnCompleteOnlyWhenTrue ==
  Emits("turncomplete") =>
    /\ ServerContentHandled
    /\ last.arg.body.serverContent.turnComplete = Bool(TRUE)

\* C37: a serverContent frame that carries interrupted emits one interrupted
\* event and no other event: its turnComplete and its modelTurn are not
\* dispatched.
C37_InterruptedAlone ==
  (/\ ServerContentHandled
   /\ last.arg.body.serverContent.t = "object"
   /\ last.arg.body.serverContent.interrupted.t # "absent") =>
    /\ last.ret = "resolve"
    /\ Visible = <<Event("interrupted", None)>>

\* a frame with interrupted, turnComplete and a modelTurn with an audio part
\* and a text part was handled
C37_Witness ==
  /\ ServerContentHandled
  /\ last.arg.body.serverContent.t = "object"
  /\ last.arg.body.serverContent.interrupted = Bool(TRUE)
  /\ last.arg.body.serverContent.turnComplete = Bool(TRUE)
  /\ last.arg.body.serverContent.modelTurn.t = "object"
  /\ \E i, j \in DOMAIN last.arg.body.serverContent.modelTurn.parts :
        /\ IsAudioPart(last.arg.body.serverContent.modelTurn.parts[i])
        /\ last.arg.body.serverContent.modelTurn.parts[i].data # ""
        /\ ~IsAudioPart(last.arg.body.serverContent.modelTurn.parts[j])
  /\ Emits("interrupted")

\* the next attempt of call c needs a socket and every socket is in use
OutOfSockets(c) == calls[c].pc = "delay" /\ FreeSockets = {}

\* C38: when every socket fires open or error and every timer fires, a
\* connect() call that is pending eventually settles (or is left without a
\* socket for its next attempt), and it never makes more than
\* reconnectAttempts attempts.
C38_ConnectSettles ==
  /\ [](\A c \in Calls : calls[c].attempt <= reconnectAttempts)
  /\ \A c \in Calls :
       (calls[c].pc # "idle") ~> (calls[c].pc = "idle" \/ OutOfSockets(c))

\* no connect() call is pending and no socket has an open, error or close
\* event still to come for a step the client took
Quiescent ==
  /\ \A c \in Calls : calls[c].pc = "idle"
  /\ \A s \in Sockets : sock[s] \notin {"connecting", "closing"}

\* C31: whenever nothing is pending, the hook's connected is true exactly
\* when the client holds an open socket; the close event of a socket that is
\* no longer the client's never leaves connected false beside a newer socket.
C31_ConnectedIffActiveSocket ==
  Quiescent => (connected <=> (ws # NoSocket /\ sock[ws] = "open"))

====
